---------------------------- MODULE Spec2Model ----------------------------
(***************************************************************************)
(* Workflow execution engine of Nexus-AI: the planner (planner.py), the    *)
(* retry / fallback / failure-propagation handlers (backtrack.py) and the  *)
(* executor (executor.py).                                                 *)
(*                                                                         *)
(* Encoding.  Node ids are strings in the program; here they are the       *)
(* integers 1, 2, ... whose order stands for the lexicographic order of    *)
(* the ids, and 0 stands for the empty string "".  Texts (LLM outputs and  *)
(* edge conditions) are sequences of one-character strings, so that        *)
(* equality, substring and lower-casing are computed, not assumed.         *)
(* Python's None is the record None; a present value v is Some(v).         *)
(***************************************************************************)
EXTENDS Integers, Sequences, FiniteSets, TLC

(***************************************************************************)
(* Bounds of the model.                                                    *)
(***************************************************************************)
\* Largest node id of a graph handed to the planner.
MaxPlanNodes == 3
\* Largest number of edges of a graph handed to the planner.
MaxPlanEdges == 3
\* Nodes of the planner's graphs whose nodes differ in their configuration.
MaxConfiguredNodes == 2

\* The empty string "" as a node id.
EmptyId == 0

None == [some |-> FALSE]
Some(v) == [some |-> TRUE, val |-> v]

Range(s) == {s[i] : i \in 1..Len(s)}

RECURSIVE SetToSortedSeq(_)
\* A finite set of integers as the ascending sequence of its elements.
SetToSortedSeq(S) ==
    IF S = {} THEN <<>>
    ELSE LET m == CHOOSE x \in S : \A y \in S : x <= y
         IN <<m>> \o SetToSortedSeq(S \ {m})

Max(S) == CHOOSE x \in S : \A y \in S : y <= x

(***************************************************************************)
(* planner.py                                                              *)
(***************************************************************************)

RECURSIVE AddEdges(_, _)
\* parse_graph, second loop: each edge with both ends in the dag appends
\* its source to deps of the target and its target to dependents of the
\* source; any other edge is passed over.
AddEdges(dag, edges) ==
    IF edges = <<>> THEN dag
    ELSE LET e == Head(edges)
             src == e.source
             tgt == e.target
         IN IF src \in DOMAIN dag /\ tgt \in DOMAIN dag
            THEN LET d1 == [dag EXCEPT ![tgt].deps = Append(@, src)]
                     d2 == [d1 EXCEPT ![src].dependents = Append(@, tgt)]
                 IN AddEdges(d2, Tail(edges))
            ELSE AddEdges(dag, Tail(edges))

\* parse_graph: the adjacency-list dag of a graph (keys: the node ids).
parse_graph(graph) ==
    AddEdges([n \in Range(graph.nodes) |-> [deps |-> <<>>, dependents |-> <<>>]],
             graph.edges)

\* The keys of the dag in dict insertion order: the order of the nodes list.
DagKeys(graph) == graph.nodes

InDegree(dag) == [n \in DOMAIN dag |-> Len(dag[n].deps)]

\* [nid for nid, deg in in_degree.items() if deg == 0]
ZeroDegree(keys, in_degree) == SelectSeq(keys, LAMBDA n : in_degree[n] = 0)

RECURSIVE Decrement(_, _, _)
\* for dep_id in dag[nid].dependents: in_degree[dep_id] -= 1, and the node
\* is appended to the queue when its in-degree reaches zero.
Decrement(dependents, in_degree, queue) ==
    IF dependents = <<>> THEN [in_degree |-> in_degree, queue |-> queue]
    ELSE LET d == Head(dependents)
             deg == in_degree[d] - 1
         IN Decrement(Tail(dependents),
                      [in_degree EXCEPT ![d] = deg],
                      IF deg = 0 THEN Append(queue, d) ELSE queue)

RECURSIVE KahnBFS(_, _, _, _)
\* detect_cycles, the while loop: pop the head of the queue, count it.
KahnBFS(dag, in_degree, queue, visited) ==
    IF queue = <<>> THEN [in_degree |-> in_degree, visited |-> visited]
    ELSE LET nid == Head(queue)
             r == Decrement(dag[nid].dependents, in_degree, Tail(queue))
         IN KahnBFS(dag, r.in_degree, r.queue, visited + 1)

\* cycle_nodes that keeps only the nodes with two or more edges left.
CycleNodesAboveOne(keys, in_degree) == SelectSeq(keys, LAMBDA n : in_degree[n] > 1)

\* cycle_nodes = [nid for nid, deg in in_degree.items() if deg > 0]
CycleNodes(keys, in_degree) == SelectSeq(keys, LAMBDA n : in_degree[n] > 0)

\* detect_cycles: ok, or the CircularDependencyError with its cycle_nodes.
detect_cycles(dag, keys) ==
    LET r == KahnBFS(dag, InDegree(dag), ZeroDegree(keys, InDegree(dag)), 0)
    IN IF r.visited # Cardinality(DOMAIN dag)
       THEN [raised |-> TRUE, cycle_nodes |-> CycleNodes(keys, r.in_degree)]
       ELSE [raised |-> FALSE, cycle_nodes |-> <<>>]

RECURSIVE KahnFifo(_, _, _, _)
\* The while loop without queue.sort(): first in, first out.
KahnFifo(dag, in_degree, queue, result) ==
    IF queue = <<>> THEN result
    ELSE LET nid == Head(queue)
             r == Decrement(dag[nid].dependents, in_degree, Tail(queue))
         IN KahnFifo(dag, r.in_degree, r.queue, Append(result, nid))

\* A loop that sorts the queue once, before its first pop.
KahnSortedOnce(dag, in_degree, queue, result) ==
    KahnFifo(dag, in_degree, SortSeq(queue, LAMBDA a, b : a < b), result)

RECURSIVE KahnSorted(_, _, _, _)
\* topological_sort, the while loop: sort the queue, pop its head.
KahnSorted(dag, in_degree, queue, result) ==
    IF queue = <<>> THEN result
    ELSE LET q == SortSeq(queue, LAMBDA a, b : a < b)
             nid == Head(q)
             r == Decrement(dag[nid].dependents, in_degree, Tail(q))
         IN KahnSorted(dag, r.in_degree, r.queue, Append(result, nid))

topological_sort(dag, keys) ==
    KahnSorted(dag, InDegree(dag), ZeroDegree(keys, InDegree(dag)), <<>>)

\* A layering that takes the smallest group of a dependency.
NodeGroupMin(deps, group_of) ==
    IF deps = <<>> THEN 0
    ELSE (CHOOSE x \in {group_of[d] : d \in Range(deps)} :
              \A y \in {group_of[d] : d \in Range(deps)} : x <= y) + 1

\* A layering that looks at the first dependency only.
NodeGroupFirst(deps, group_of) ==
    IF deps = <<>> THEN 0 ELSE group_of[deps[1]] + 1

\* The group of a node with dependencies deps: 0 without any, else one
\* more than the largest group of a dependency.
NodeGroup(deps, group_of) ==
    IF deps = <<>> THEN 0
    ELSE Max({group_of[d] : d \in Range(deps)}) + 1

RECURSIVE GroupOf(_, _, _)
\* extract_parallel_groups, first loop: group_of over sorted_nodes.
GroupOf(dag, sorted_nodes, group_of) ==
    IF sorted_nodes = <<>> THEN group_of
    ELSE LET nid == Head(sorted_nodes)
             g == NodeGroup(dag[nid].deps, group_of)
         IN GroupOf(dag, Tail(sorted_nodes),
                    [n \in DOMAIN group_of \cup {nid} |->
                        IF n = nid THEN g ELSE group_of[n]])

\* extract_parallel_groups: the groups in ascending index, each with its
\* agents in sorted_nodes order.
extract_parallel_groups(dag, sorted_nodes) ==
    LET group_of == GroupOf(dag, sorted_nodes, <<>>)
        keys == SetToSortedSeq({group_of[n] : n \in DOMAIN group_of})
    IN [i \in 1..Len(keys) |->
          [group |-> keys[i],
           agents |-> SelectSeq(sorted_nodes, LAMBDA n : group_of[n] = keys[i])]]

RECURSIVE SumAgents(_)
\* sum(len(g.agents) for g in groups)
SumAgents(groups) ==
    IF groups = <<>> THEN 0
    ELSE Len(Head(groups).agents) + SumAgents(Tail(groups))

\* create_execution_plan: the plan, or the error raised.
create_execution_plan(graph) ==
    IF graph.nodes = <<>>
    THEN [kind |-> "EmptyWorkflowError"]
    ELSE LET dag == parse_graph(graph)
             keys == DagKeys(graph)
             cyc == detect_cycles(dag, keys)
         IN IF cyc.raised
            THEN [kind |-> "CircularDependencyError",
                  cycle_nodes |-> cyc.cycle_nodes]
            ELSE LET groups == extract_parallel_groups(dag, topological_sort(dag, keys))
                 IN [kind |-> "ExecutionPlan",
                     groups |-> groups,
                     total_agents |-> SumAgents(groups),
                     max_parallelism |->
                        IF groups = <<>> THEN 0
                        ELSE Max({Len(groups[i].agents) : i \in 1..Len(groups)}),
                     estimated_rounds |-> Len(groups)]

\* The plan with its agents as AgentPlanEntry(node_id=nid,
\* config=dag[nid].config), the config being the data of the node.
PlanEntries(p, graph) ==
    [p EXCEPT !.groups =
        [i \in 1..Len(p.groups) |->
            [group |-> p.groups[i].group,
             agents |-> [j \in 1..Len(p.groups[i].agents) |->
                           [node_id |-> p.groups[i].agents[j],
                            config |-> graph.data[p.groups[i].agents[j]]]]]]]

\* ExecutionPlan.to_dict
to_dict(self) ==
    [groups |-> [i \in 1..Len(self.groups) |->
                   [group |-> self.groups[i].group,
                    agents |-> [j \in 1..Len(self.groups[i].agents) |->
                                  [node_id |-> self.groups[i].agents[j].node_id,
                                   config |-> self.groups[i].agents[j].config]]]],
     total_agents |-> self.total_agents,
     max_parallelism |-> self.max_parallelism,
     estimated_rounds |-> self.estimated_rounds]

\* ParallelGroup(group=g["group"]) with the default of agents.
RebuiltGroupNoAgents(g) == [group |-> g.group, agents |-> <<>>]

\* tasks/execute_workflow.py, _rebuild_plan: one group of the loop.
RebuiltGroup(g) ==
    [group |-> g.group,
     agents |-> [j \in 1..Len(g.agents) |->
                   [node_id |-> g.agents[j].node_id, config |-> g.agents[j].config]]]

\* tasks/execute_workflow.py, _rebuild_plan
_rebuild_plan(plan_dict) ==
    [kind |-> "ExecutionPlan",
     groups |-> [i \in 1..Len(plan_dict.groups) |-> RebuiltGroup(plan_dict.groups[i])],
     total_agents |-> plan_dict.total_agents,
     max_parallelism |-> plan_dict.max_parallelism,
     estimated_rounds |-> plan_dict.estimated_rounds]

(***************************************************************************)
(* backtrack.py                                                            *)
(***************************************************************************)

\* MAX_BACKOFF, seconds.
MAX_BACKOFF == 10
\* RetryConfig.base_delay, seconds.
BASE_DELAY == 1

Min(a, b) == IF a < b THEN a ELSE b

\* RetryResult(success, result, error, attempts)
RetryResult(success, result, error, attempts) ==
    [success |-> success, result |-> result, error |-> error, attempts |-> attempts]

\* RetryHandler.execute up to its first await: with range(max_retries + 1)
\* empty the loop body never runs and the failure is returned at once;
\* otherwise the first call of fn is awaited.
\*   attempt, attempts, last_error: the locals of execute
\*   calls: what each call of fn did, in order;  sleeps: the delays slept
\*   returned: None while the loop runs, else the RetryResult
\*   kwargs: the names of the keyword arguments given to execute, all of
\*   which it hands to fn;  callback_calls: the calls of on_attempt_fail
RetryBeginWith(max_retries, kwargs) ==
    [max_retries |-> max_retries, attempt |-> 0, attempts |-> 0,
     last_error |-> "", calls |-> <<>>, sleeps |-> <<>>,
     kwargs |-> kwargs, callback_calls |-> <<>>,
     returned |-> IF max_retries + 1 <= 0
                  THEN Some(RetryResult(FALSE, None, Some(""), 0))
                  ELSE None]

\* A handler built with one retry more than the node's max_retries.
RetryBeginOneMore(max_retries) == RetryBeginWith(max_retries + 1, {})

\* execute(fn, *args) without keyword arguments, as the executor calls it.
RetryBegin(max_retries) == RetryBeginWith(max_retries, {})

\* The keyword parameters of the wrapped function: it has none.
FnParams == {}

\* fn(*args, **kwargs): a keyword the function does not have raises
\* TypeError in place of what the function would have done.
FnCall(kwargs, outcome) ==
    IF kwargs \subseteq FnParams
    THEN [ok |-> outcome.ok, value |-> outcome.value, kwargs |-> kwargs]
    ELSE [ok |-> FALSE, value |-> "TypeError", kwargs |-> kwargs]

\* A delay without the cap.
BackoffDelayUncapped(attempt) == BASE_DELAY * (2 ^ attempt)

\* The delay slept after failed attempt number attempt (0-based).
BackoffDelay(attempt) == Min(BASE_DELAY * (2 ^ attempt), MAX_BACKOFF)

\* A loop over range(max_retries + 2).
HasNextAttemptOneMore(rh) == rh.attempt <= rh.max_retries

\* True when the loop has a next iteration after iteration attempt.
HasNextAttempt(rh) == rh.attempt < rh.max_retries

\* One iteration of the loop of RetryHandler.execute: fn is called once and
\* either returns outcome.value (outcome.ok) or raises outcome.value.
RetryAttempt(rh, fn_outcome) ==
    LET attempts == rh.attempt + 1
        outcome == FnCall(rh.kwargs, fn_outcome)
    IN IF outcome.ok
       THEN [rh EXCEPT !.attempts = attempts,
                       !.calls = Append(@, outcome),
                       !.returned = Some(RetryResult(TRUE, Some(outcome.value),
                                                     None, attempts))]
       ELSE IF HasNextAttempt(rh)
            THEN [rh EXCEPT !.attempts = attempts,
                            !.calls = Append(@, outcome),
                            !.last_error = outcome.value,
                            !.sleeps = Append(@, BackoffDelay(rh.attempt)),
                            !.attempt = @ + 1]
            ELSE [rh EXCEPT !.attempts = attempts,
                            !.calls = Append(@, outcome),
                            !.last_error = outcome.value,
                            !.returned = Some(RetryResult(FALSE, None,
                                                          Some(outcome.value), attempts))]

\* should_fallback that forgets the empty id.
should_fallback_not_none(node_config) == node_config.fallback_agent_id # None

\* FallbackHandler.should_fallback: fid is not None and fid != ""
should_fallback(node_config) ==
    LET fid == node_config.fallback_agent_id
    IN fid # None /\ fid # Some(EmptyId)

\* FallbackHandler.get_fallback_id
get_fallback_id(node_config) == node_config.fallback_agent_id

RECURSIVE PushTargets(_, _, _)
\* find_downstream, the for loop over edges_from.get(current, []).
PushTargets(targets, skipped, stack) ==
    IF targets = <<>> THEN [skipped |-> skipped, stack |-> stack]
    ELSE LET target == Head(targets)[1]
         IN IF target \notin skipped
            THEN PushTargets(Tail(targets), skipped \cup {target},
                             Append(stack, target))
            ELSE PushTargets(Tail(targets), skipped, stack)

RECURSIVE WalkDownstream(_, _, _)
\* find_downstream, the while loop over the stack.
WalkDownstream(stack, skipped, edges_from) ==
    IF stack = <<>> THEN skipped
    ELSE LET current == stack[Len(stack)]
             rest == SubSeq(stack, 1, Len(stack) - 1)
             targets == IF current \in DOMAIN edges_from
                        THEN edges_from[current] ELSE <<>>
             r == PushTargets(targets, skipped, rest)
         IN WalkDownstream(r.stack, r.skipped, edges_from)

\* DependencyFailureHandler.find_downstream
find_downstream(failed_node, edges_from) ==
    WalkDownstream(<<failed_node>>, {}, edges_from)

\* propagate that adds the direct targets of the failed node only.
propagateDirect(failed_node, edges_from, skipped) ==
    skipped \cup (IF failed_node \in DOMAIN edges_from
                  THEN {x[1] : x \in Range(edges_from[failed_node])}
                  ELSE {})

\* propagate that replaces the set by the downstream nodes.
propagateReplace(failed_node, edges_from, skipped) ==
    find_downstream(failed_node, edges_from)

\* DependencyFailureHandler.propagate: the new value of skipped_nodes.
propagate(failed_node, edges_from, skipped) ==
    skipped \cup find_downstream(failed_node, edges_from)

(***************************************************************************)
(* executor.py: pure parts                                                 *)
(***************************************************************************)

\* One character of str.lower(), on the letters the model's texts use.
LowerChar(c) == IF c = "D" THEN "d" ELSE c

\* str.lower()
Lower(t) == [i \in 1..Len(t) |-> LowerChar(t[i])]

\* The text "default".
DefaultText == <<"d", "e", "f", "a", "u", "l", "t">>

\* condition in output_text
IsSubstring(c, t) ==
    \E i \in 0..(Len(t) - Len(c)) : SubSeq(t, i + 1, i + Len(c)) = c

\* _evaluate_condition that compares with "default" without lower().
evaluate_condition_case(condition, output_text) ==
    IF condition = None \/ condition = Some(<<>>)
    THEN TRUE
    ELSE IF condition.val = DefaultText THEN TRUE
    ELSE IF output_text = condition.val THEN TRUE
    ELSE IF IsSubstring(condition.val, output_text) THEN TRUE
    ELSE FALSE

\* _evaluate_condition(condition, output_text)
evaluate_condition(condition, output_text) ==
    IF condition = None \/ condition = Some(<<>>)
    THEN TRUE
    ELSE IF Lower(condition.val) = DefaultText THEN TRUE
    ELSE IF output_text = condition.val THEN TRUE
    ELSE IF IsSubstring(condition.val, output_text) THEN TRUE
    ELSE FALSE

\* Python truth of an edge's condition: None and "" are false.
Truthy(condition) == condition # None /\ condition # Some(<<>>)

\* The providers _get_adapter knows; any other string raises ValueError.
KnownProviders == {"openai", "anthropic"}

\* _get_adapter(provider) raises ValueError("Unknown provider: ...")
get_adapter_raises(provider) == provider \notin KnownProviders

\* node_configs.get(nid, {}): the data of a node of the graph, else {}.
\* The empty config reads as the defaults of the .get calls: provider
\* "openai", max_retries 2, no fallback_agent_id.
NodeConfig(graph, nid) ==
    IF nid \in DOMAIN graph.data THEN graph.data[nid]
    ELSE [provider |-> "openai", max_retries |-> 2, fallback_agent_id |-> None]

RECURSIVE EdgesFrom(_, _)
\* edges_from.setdefault(src, []).append((tgt, cond)) for each edge.
EdgesFrom(edges, edges_from) ==
    IF edges = <<>> THEN edges_from
    ELSE LET e == Head(edges)
             old == IF e.source \in DOMAIN edges_from
                    THEN edges_from[e.source] ELSE <<>>
         IN EdgesFrom(Tail(edges),
                      [s \in DOMAIN edges_from \cup {e.source} |->
                          IF s = e.source
                          THEN Append(old, <<e.target, e.condition>>)
                          ELSE edges_from[s]])

\* A loop that starts from should_run = False and sets it when an inbound
\* edge lets the node run.
should_run_needs_edge(nid, edges, completed) ==
    \E i \in 1..Len(edges) :
        /\ edges[i].target = nid
        /\ \/ ~ Truthy(edges[i].condition)
           \/ /\ edges[i].source \in DOMAIN completed
              /\ evaluate_condition(edges[i].condition, completed[edges[i].source].text)

\* The inbound-edge loop: should_run stays True unless some inbound edge
\* has a truthy condition, a source in completed_outputs, and a condition
\* that does not evaluate to true on the source's text.
should_run(nid, edges, completed) ==
    ~ \E i \in 1..Len(edges) :
          /\ edges[i].target = nid
          /\ Truthy(edges[i].condition)
          /\ edges[i].source \in DOMAIN completed
          /\ ~ evaluate_condition(edges[i].condition, completed[edges[i].source].text)

\* dep_outputs: completed_outputs restricted to the sources of inbound edges.
dep_outputs(nid, edges, completed) ==
    [src \in {edges[i].source : i \in {j \in 1..Len(edges) :
                                          /\ edges[j].target = nid
                                          /\ edges[j].source \in DOMAIN completed}}
        |-> completed[src]]

\* LLMResponse.tokens and LLMResponse.cost of the response with this text:
\* each text comes with one usage; cost is counted in whole units.
LLMUsage(text) ==
    IF text = <<"y", "e", "s">>
    THEN [prompt |-> 2, completion |-> 1, cost |-> 3]
    ELSE [prompt |-> 1, completion |-> 3, cost |-> 5]

\* agent_exec.status = "completed" and the fields set with it.
CompletedRow(row, text) ==
    [row EXCEPT !.status = "completed",
                !.output_data = Some(text),
                !.tokens_prompt = LLMUsage(text).prompt,
                !.tokens_completion = LLMUsage(text).completion,
                !.cost = LLMUsage(text).cost]

NoRow == [status |-> "absent"]
NoTask == [st |-> "none"]

SkipDependencyFailed == "skipped - dependency failed"
SkipConditionNotMet == "skipped - condition not met"

\* AgentExecution(...) of a node that is not run.
SkippedRow(nid, group, order, reason) ==
    [agent_node_id |-> nid, status |-> "skipped", is_fallback |-> FALSE,
     fallback_for |-> None, parallel_group |-> group, execution_order |-> order,
     error_message |-> Some(reason), retries |-> 0, output_data |-> None,
     tokens_prompt |-> 0, tokens_completion |-> 0, cost |-> 0]

\* AgentExecution(...) at the start of _execute_agent_with_recovery.
RunningRow(nid, group, order) ==
    [agent_node_id |-> nid, status |-> "running", is_fallback |-> FALSE,
     fallback_for |-> None, parallel_group |-> group, execution_order |-> order,
     error_message |-> None, retries |-> 0, output_data |-> None,
     tokens_prompt |-> 0, tokens_completion |-> 0, cost |-> 0]

\* AgentExecution(...) at the start of _execute_fallback.
FallbackRow(fallback_node_id, original_node_id, group, order) ==
    [agent_node_id |-> fallback_node_id, status |-> "running", is_fallback |-> TRUE,
     fallback_for |-> Some(original_node_id), parallel_group |-> group,
     execution_order |-> order, error_message |-> None, retries |-> 0,
     output_data |-> None, tokens_prompt |-> 0, tokens_completion |-> 0,
     cost |-> 0]

\* A task that is given the group's index as its execution_order.
CreatedTaskGroupOrder(deps, group, order) ==
    [st |-> "created", dependency_outputs |-> deps, parallel_group |-> group,
     execution_order |-> group, rh |-> None, result |-> None]

\* A task of a group before gather starts it: the coroutine, its arguments.
CreatedTask(deps, group, order) ==
    [st |-> "created", dependency_outputs |-> deps, parallel_group |-> group,
     execution_order |-> order, rh |-> None, result |-> None]

RECURSIVE GroupLoopNoSkipCheck(_, _, _, _, _)
\* A loop that does not look at skipped_nodes before it enqueues a node.
GroupLoopNoSkipCheck(agents, group, graph, completed, s) ==
    IF agents = <<>> THEN s
    ELSE LET nid == Head(agents)
             order == s.order_counter
         IN IF ~ should_run(nid, graph.edges, completed)
            THEN GroupLoopNoSkipCheck(Tail(agents), group, graph, completed,
                    [s EXCEPT !.agent_exec[nid] =
                                  SkippedRow(nid, group, order, SkipConditionNotMet),
                              !.skipped_nodes = @ \cup {nid},
                              !.order_counter = @ + 1])
            ELSE GroupLoopNoSkipCheck(Tail(agents), group, graph, completed,
                    [s EXCEPT !.tasks[nid] =
                                  CreatedTask(dep_outputs(nid, graph.edges, completed),
                                              group, order),
                              !.order_counter = @ + 1])

RECURSIVE GroupLoop(_, _, _, _, _)
\* execute_workflow, the loop over group.agents (no await inside it).
\* s holds the locals it changes: agent_exec (the rows added), tasks,
\* skipped_nodes and order_counter.
GroupLoop(agents, group, graph, completed, s) ==
    IF agents = <<>> THEN s
    ELSE LET nid == Head(agents)
             order == s.order_counter
         IN IF nid \in s.skipped_nodes
            THEN GroupLoop(Tail(agents), group, graph, completed,
                    [s EXCEPT !.agent_exec[nid] =
                                  SkippedRow(nid, group, order, SkipDependencyFailed),
                              !.order_counter = @ + 1])
            ELSE IF ~ should_run(nid, graph.edges, completed)
            THEN GroupLoop(Tail(agents), group, graph, completed,
                    [s EXCEPT !.agent_exec[nid] =
                                  SkippedRow(nid, group, order, SkipConditionNotMet),
                              !.skipped_nodes = @ \cup {nid},
                              !.order_counter = @ + 1])
            ELSE GroupLoop(Tail(agents), group, graph, completed,
                    [s EXCEPT !.tasks[nid] =
                                  CreatedTask(dep_outputs(nid, graph.edges, completed),
                                              group, order),
                              !.order_counter = @ + 1])

\* The dict a task returns, or the exception gather hands back.
CompletedResult(node_id, text, is_fallback) ==
    [status |-> "completed", node_id |-> node_id, text |-> text,
     tokens_prompt |-> LLMUsage(text).prompt,
     tokens_completion |-> LLMUsage(text).completion,
     cost |-> LLMUsage(text).cost,
     is_fallback |-> is_fallback]
FailedResult(node_id) == [status |-> "failed", node_id |-> node_id]
RaisedResult == [status |-> "raised"]

\* A total that leaves out the completion tokens.
AddTotalsPromptOnly(rec, res) ==
    [rec EXCEPT !.total_tokens_prompt = @ + res.tokens_prompt,
                !.total_cost = @ + res.cost]

\* exec_record.total_... += res.get(..., 0) for a completed result.
AddTotals(rec, res) ==
    [rec EXCEPT !.total_tokens_prompt = @ + res.tokens_prompt,
                !.total_tokens_completion = @ + res.tokens_completion,
                !.total_cost = @ + res.cost]

RECURSIVE ApplyResults(_, _, _, _)
\* execute_workflow, the loop over the results of gather (task order).
\* s holds completed_outputs, skipped_nodes and exec_record.
ApplyResults(agents, tasks, edges_from, s) ==
    IF agents = <<>> THEN s
    ELSE LET nid == Head(agents)
             res == tasks[nid].result
         IN IF tasks[nid].st # "done" \/ res.val.status = "raised"
            THEN ApplyResults(Tail(agents), tasks, edges_from, s)
            ELSE IF res.val.status = "completed"
            THEN ApplyResults(Tail(agents), tasks, edges_from,
                    [s EXCEPT !.completed_outputs =
                        [n \in DOMAIN @ \cup {res.val.node_id} |->
                            IF n = res.val.node_id
                            THEN [text |-> res.val.text]
                            ELSE @[n]],
                              !.exec_record = AddTotals(@, res.val)])
            ELSE ApplyResults(Tail(agents), tasks, edges_from,
                    [s EXCEPT !.skipped_nodes =
                        propagate(res.val.node_id, edges_from, @)])

(***************************************************************************)
(* engine/events.py.  execute_workflow calls none of its functions.        *)
(***************************************************************************)
\* _publish(execution_id, event): the channel afterwards.
Publish(channel, event) == Append(channel, event)

\* What redis does in one call of _publish: all three calls work, or
\* from_url or publish raises, or publish works and close raises.
PublishOutcomes == {"ok", "publish raises", "close raises"}

\* The channel after the three calls on redis.
Sent(channel, event, outcome) ==
    IF outcome = "publish raises" THEN channel ELSE Publish(channel, event)

\* _publish without its try/except: the failure reaches the caller.
_publish_unguarded(channel, event, outcome) ==
    [channel |-> Sent(channel, event, outcome), raised |-> outcome # "ok",
     logged |-> FALSE]

\* _publish(execution_id, event): the channel afterwards, whether the call
\* raised to its caller, whether a warning was logged.
_publish(channel, event, outcome) ==
    [channel |-> Sent(channel, event, outcome), raised |-> FALSE,
     logged |-> outcome # "ok"]

\* agent_started(execution_id, agent_id, ...)
agent_started(channel, agent_id) ==
    Publish(channel, [type |-> "agent_started", agent_id |-> agent_id])

\* agent_completed(execution_id, agent_id, ...)
agent_completed(channel, agent_id) ==
    Publish(channel, [type |-> "agent_completed", agent_id |-> agent_id])

\* agent_failed(execution_id, agent_id, ..., will_retry, retries_remaining)
agent_failed(channel, agent_id, will_retry, retries_remaining) ==
    Publish(channel, [type |-> "agent_failed", agent_id |-> agent_id,
                      will_retry |-> will_retry,
                      retries_remaining |-> retries_remaining])

\* agent_skipped(execution_id, agent_id, agent_name, reason)
agent_skipped(channel, agent_id, reason) ==
    Publish(channel, [type |-> "agent_skipped", agent_id |-> agent_id,
                      reason |-> reason])

\* execution_completed(execution_id, status, ...)
execution_completed(channel, status) ==
    Publish(channel, [type |-> "execution_completed", status |-> status])

(***************************************************************************)
(* engine/budget.py: BudgetEnforcer.  Costs are counted in whole units.    *)
(***************************************************************************)
\* BudgetEnforcer.__init__
BudgetEnforcer(max_tokens, max_cost) ==
    [max_tokens |-> max_tokens, max_cost |-> max_cost,
     used_tokens |-> 0, used_cost |-> 0, warned |-> FALSE]

\* BudgetEnforcer.has_budget
has_budget(self) == self.max_tokens # None \/ self.max_cost # None

\* BudgetEnforcer.record
record(self, tokens, cost) ==
    [self EXCEPT !.used_tokens = @ + tokens, !.used_cost = @ + cost]

\* A cap that is reached only when it is passed.
CapReachedStrict(used, cap) == cap # None /\ used > cap.val

\* self.max_... is not None and self.used_... >= self.max_...
CapReached(used, cap) == cap # None /\ used >= cap.val

\* self.max_... is not None and self.used_... >= self.max_... * 0.8
CapNear(used, cap) == cap # None /\ 5 * used >= 4 * cap.val

\* A check that returns "warning" without setting _warned.
check_forgets_warning(self) ==
    IF CapReached(self.used_cost, self.max_cost) THEN [value |-> "exceeded", self |-> self]
    ELSE IF CapReached(self.used_tokens, self.max_tokens)
    THEN [value |-> "exceeded", self |-> self]
    ELSE IF ~ self.warned /\ CapNear(self.used_cost, self.max_cost)
    THEN [value |-> "warning", self |-> self]
    ELSE IF ~ self.warned /\ CapNear(self.used_tokens, self.max_tokens)
    THEN [value |-> "warning", self |-> self]
    ELSE [value |-> "ok", self |-> self]

\* BudgetEnforcer.check: the value returned and the object afterwards.
check(self) ==
    IF CapReached(self.used_cost, self.max_cost) THEN [value |-> "exceeded", self |-> self]
    ELSE IF CapReached(self.used_tokens, self.max_tokens)
    THEN [value |-> "exceeded", self |-> self]
    ELSE IF ~ self.warned /\ CapNear(self.used_cost, self.max_cost)
    THEN [value |-> "warning", self |-> [self EXCEPT !.warned = TRUE]]
    ELSE IF ~ self.warned /\ CapNear(self.used_tokens, self.max_tokens)
    THEN [value |-> "warning", self |-> [self EXCEPT !.warned = TRUE]]
    ELSE [value |-> "ok", self |-> self]

(***************************************************************************)
(* State                                                                   *)
(***************************************************************************)
VARIABLES
    graph_data,         \* the graph: nodes, edges, data (node id -> config)
    plan_result,        \* what create_execution_plan returned (planner runs)
    rh,                 \* the activation of RetryHandler.execute (retry runs)
    plan,               \* plan.groups handed to execute_workflow
    pc,                 \* where execute_workflow stands
    group_idx,          \* the index into plan.groups of the current group
    exec_record,        \* the WorkflowExecution row
    completed_outputs,  \* node id -> {text}
    skipped_nodes,      \* set of node ids
    order_counter,
    agent_exec,         \* node id -> the AgentExecution row added for it
    fb_exec,            \* node id -> the fallback row run on its behalf
    tasks,              \* node id -> its task in gather
    be,                 \* the BudgetEnforcer (budget runs)
    be_log,             \* the calls made on it: record(...), check() -> value
    deliveries,         \* how often the job of the execution was delivered
    prior_rows,         \* the AgentExecution rows committed by earlier deliveries
    published,          \* the events published on the execution's channel
    requests,           \* the create-execution requests of one workflow
    executions,         \* the workflow_executions rows of that workflow
    queue,              \* the broker's queue of execute_workflow_task jobs
    ws,                 \* one connection of the WebSocket bridge
    publish_calls       \* the calls of _publish and how each one ended

vars == <<graph_data, plan_result, rh, plan, pc, group_idx, exec_record,
          completed_outputs, skipped_nodes, order_counter, agent_exec,
          fb_exec, tasks, be, be_log, deliveries, prior_rows, published,
          requests, executions, queue, ws, publish_calls>>

admitVars == <<requests, executions, queue>>

\* What the planner, the retry handler and the executor leave alone.
restVars == <<be, be_log, deliveries, prior_rows, published, admitVars, ws,
              publish_calls>>

execVars == <<plan, pc, group_idx, exec_record, completed_outputs,
              skipped_nodes, order_counter, agent_exec, fb_exec, tasks>>

(***************************************************************************)
(* Inputs                                                                  *)
(***************************************************************************)
\* Largest node id of a graph handed to the executor.
MaxNodes == 3
\* Largest max_retries of a node of an executed graph.
MaxExecRetries == 1
\* Largest max_retries handed to RetryHandler on its own.
MaxRetries == 6

\* LLM output texts.
TextYes == <<"y", "e", "s">>
TextNo == <<"n", "o">>
Texts == {TextYes, TextNo}

\* What one adapter call does: return a text, or raise.
AdapterOutcomes ==
    {[ok |-> TRUE, value |-> t] : t \in Texts} \cup {[ok |-> FALSE, value |-> "LLM error"]}

\* What one call of the function wrapped by RetryHandler does.
RetryOutcomes ==
    {[ok |-> TRUE, value |-> v] : v \in {"r1", "r2"}}
        \cup {[ok |-> FALSE, value |-> e] : e \in {"e1", "e2"}}

\* Edge conditions: absent, empty, equal to a text, a proper substring of
\* a text, and "Default".
BasicConditions == {None, Some(TextYes)}
Conditions ==
    BasicConditions \cup
        {Some(<<>>), Some(<<"e", "s">>), Some(<<"D", "e", "f", "a", "u", "l", "t">>)}

\* A fallback_agent_id that names no node of the graph (a template).
TemplateId(n) == n + 1

PlainData == [provider |-> "openai", max_retries |-> 0, fallback_agent_id |-> None]

\* Node configurations of a graph of nodes 1..n.
NodeDatas(n) ==
    [provider : {"openai"},
     max_retries : 0..MaxExecRetries,
     fallback_agent_id : {None, Some(TemplateId(n))}]
      \cup {[PlainData EXCEPT !.fallback_agent_id = Some(EmptyId)],
            [PlainData EXCEPT !.fallback_agent_id = Some(1)],
            [PlainData EXCEPT !.provider = ""]}

Edge(source, target, condition) ==
    [source |-> source, target |-> target, condition |-> condition]

\* The edges over a set of (source, target) pairs, listed by source and
\* then target, each with the condition cond gives it.
EdgeList(P, cond, width) ==
    LET keys == SetToSortedSeq({p[1] * width + p[2] : p \in P})
    IN [i \in 1..Len(keys) |->
          Edge(keys[i] \div width, keys[i] % width,
               cond[<<keys[i] \div width, keys[i] % width>>])]

NodeList(n) == [i \in 1..n |-> i]

RECURSIVE SeqsUpTo(_, _)
SeqsUpTo(S, n) ==
    IF n = 0 THEN {<<>>}
    ELSE LET shorter == SeqsUpTo(S, n - 1)
         IN shorter \cup {Append(q, x) : q \in shorter, x \in S}

\* Graphs handed to the planner: nodes 1..n for n <= maxn and any list of
\* at most maxe edges between ids of 1..maxn (self-loops, repeated edges,
\* cycles, and for n < maxn edges naming no node of the graph, included).
PlannerGraphs(maxn, maxe) ==
    {[nodes |-> NodeList(n), edges |-> es, data |-> [i \in 1..n |-> PlainData]] :
        n \in 0..maxn,
        es \in SeqsUpTo({Edge(u, v, None) : u \in 1..maxn, v \in 1..maxn}, maxe)}

\* Graphs handed to the executor: nodes 1..n, edges from a smaller id to a
\* larger one (every acyclic shape, up to renaming), and either
\*   any basic condition on each edge and at most one node whose
\*   configuration is not the plain one, or
\*   any condition on each edge and plain nodes.
ExecShapes(n) == SUBSET {p \in (1..n) \X (1..n) : p[1] < p[2]}

OneSpecial(n) ==
    {[i \in 1..n |-> PlainData]} \cup
        {[i \in 1..n |-> IF i = k THEN d ELSE PlainData] :
            k \in 1..n, d \in NodeDatas(n)}

ExecGraph(n, P, c, d) ==
    [nodes |-> NodeList(n), edges |-> EdgeList(P, c, n + 1), data |-> d]

ExecGraphs(n) ==
    UNION { { ExecGraph(n, P, c, d) :
                c \in [P -> BasicConditions], d \in OneSpecial(n) }
              \cup { ExecGraph(n, P, c, [i \in 1..n |-> PlainData]) :
                       c \in [P -> Conditions] }
            : P \in ExecShapes(n) }

NoGraph == [nodes |-> <<>>, edges |-> <<>>, data |-> <<>>]

(***************************************************************************)
(* create_execution_plan on its own                                        *)
(***************************************************************************)
\* datetime.now(timezone.utc): the value of a timestamp is left open.
Now == "now"

\* WorkflowExecution(status="pending", ...) with the defaults of its columns.
PendingExecution ==
    [status |-> "pending", error_message |-> None, total_tokens_prompt |-> 0,
     total_tokens_completion |-> 0, total_cost |-> 0,
     budget_max_tokens |-> None, budget_max_cost |-> None,
     started_at |-> None, completed_at |-> None]

ExecOff ==
    /\ plan = <<>>
    /\ pc = "off"
    /\ group_idx = 0
    /\ exec_record = [PendingExecution EXCEPT !.status = "none"]
    /\ completed_outputs = <<>>
    /\ skipped_nodes = {}
    /\ order_counter = 0
    /\ agent_exec = <<>>
    /\ fb_exec = <<>>
    /\ tasks = <<>>

\* No connection of the bridge.
NoSocket == [pc |-> "none"]

AdmitOff ==
    /\ requests = <<>>
    /\ executions = <<>>
    /\ queue = <<>>

RestOff ==
    /\ AdmitOff
    /\ be = None
    /\ be_log = <<>>
    /\ deliveries = 0
    /\ prior_rows = <<>>
    /\ published = <<>>
    /\ ws = NoSocket
    /\ publish_calls = <<>>

InitPlanner ==
    /\ graph_data \in PlannerGraphs(MaxPlanNodes, MaxPlanEdges)
                         \cup ExecGraphs(MaxConfiguredNodes)
    /\ plan_result = None
    /\ rh = None
    /\ ExecOff
    /\ RestOff

\* The admission endpoint calls create_execution_plan(graph_data).
CreatePlan ==
    /\ plan_result = None
    /\ plan_result' = Some(create_execution_plan(graph_data))
    /\ UNCHANGED restVars
    /\ UNCHANGED <<graph_data, rh, execVars>>

\* The endpoint puts plan.to_dict() into the job and the task rebuilds the
\* plan from it.
RebuildPlan ==
    /\ pc = "off"
    /\ plan_result # None
    /\ plan_result.val.kind = "ExecutionPlan"
    /\ plan' = _rebuild_plan(to_dict(PlanEntries(plan_result.val, graph_data)))
    /\ pc' = "rebuilt"
    /\ UNCHANGED restVars
    /\ UNCHANGED <<graph_data, plan_result, rh, group_idx, exec_record,
                   completed_outputs, skipped_nodes, order_counter, agent_exec,
                   fb_exec, tasks>>

NextPlanner == CreatePlan \/ RebuildPlan

SpecPlanner == InitPlanner /\ [][NextPlanner]_vars

(***************************************************************************)
(* RetryHandler.execute on its own                                         *)
(***************************************************************************)
InitRetry ==
    /\ graph_data = NoGraph
    /\ plan_result = None
    /\ rh \in {Some(RetryBeginWith(m, k)) :
                   m \in (-1)..MaxRetries, k \in {{}, {"on_attempt_fail"}}}
    /\ ExecOff
    /\ RestOff

\* One call of the wrapped function returns or raises.
RetryCall ==
    /\ rh # None
    /\ rh.val.returned = None
    /\ \E outcome \in RetryOutcomes : rh' = Some(RetryAttempt(rh.val, outcome))
    /\ UNCHANGED restVars
    /\ UNCHANGED <<graph_data, plan_result, execVars>>

NextRetry == RetryCall

SpecRetry == InitRetry /\ [][NextRetry]_vars

(***************************************************************************)
(* api/executions.py: the create-execution endpoint of one workflow, and   *)
(* the worker's execute_workflow_task                                      *)
(***************************************************************************)
\* How many requests are made for the workflow.
MaxRequests == 3
\* Largest node id of the workflow's graph.
MaxAdmitNodes == 1
\* The estimated cost of one agent (it depends on the pricing table).
AgentEstimate == 2
\* payload.budget.max_cost: no budget, below the estimate, at the estimate.
PayloadBudgets == {None, Some(AgentEstimate - 1), Some(AgentEstimate)}

\* estimate_workflow_cost(plan, graph_data).total, every agent at the same
\* estimated cost.
estimate_workflow_cost(planned) == AgentEstimate * planned.total_agents

\* The keyword arguments of execute_workflow_task.delay(...) in the endpoint.
DelayKwargs ==
    {"execution_id", "plan_dict", "graph_data", "input_data",
     "budget_max_tokens", "budget_max_cost"}

\* The parameters of execute_workflow_task after self.
TaskParams == {"execution_id", "plan_dict", "graph_data", "input_data"}

\* Calling the task function with these keyword arguments does not raise
\* TypeError.
TaskAccepts(kwargs) == kwargs \subseteq TaskParams

\* check_running_execution's query: the rows with status pending or running.
NonTerminal(rows) ==
    {i \in DOMAIN rows : rows[i].status \in {"pending", "running"}}

NewRequest(budget) ==
    [pc |-> "start", budget |-> budget, saw |-> 0, execution |-> 0, jobs |-> 0,
     response |-> None]

Respond(req, response) == [req EXCEPT !.pc = "done", !.response = Some(response)]

InitAdmit ==
    /\ graph_data \in PlannerGraphs(MaxAdmitNodes, 1)
    /\ plan_result = None
    /\ rh = None
    /\ ExecOff
    /\ be = None
    /\ be_log = <<>>
    /\ deliveries = 0
    /\ prior_rows = <<>>
    /\ published = <<>>
    /\ ws = NoSocket
    /\ publish_calls = <<>>
    /\ requests \in [1..MaxRequests -> {NewRequest(b) : b \in PayloadBudgets}]
    /\ executions = <<>>
    /\ queue = <<>>

\* The endpoint from check_running_execution to the call of db.commit():
\* scalar_one_or_none raises for two or more rows, one row is a CONFLICT,
\* then the plan and the estimate are made and the pending row is added.
AdmitCheck(r) ==
    /\ requests[r].pc = "start"
    /\ LET n == Cardinality(NonTerminal(executions))
           planned == create_execution_plan(graph_data)
           budget == requests[r].budget
           req == [requests[r] EXCEPT !.saw = n]
       IN requests' = [requests EXCEPT ![r] =
             IF n >= 2 THEN Respond(req, "500 MultipleResultsFound")
             ELSE IF n = 1 THEN Respond(req, "409 CONFLICT")
             ELSE IF planned.kind = "EmptyWorkflowError"
             THEN Respond(req, "400 EMPTY_WORKFLOW")
             ELSE IF planned.kind = "CircularDependencyError"
             THEN Respond(req, "400 CIRCULAR_DEPENDENCY")
             ELSE IF budget # None /\ estimate_workflow_cost(planned) > budget.val
             THEN Respond(req, "400 BUDGET_EXCEEDED_ESTIMATE")
             ELSE [req EXCEPT !.pc = "commit"]]
    /\ UNCHANGED <<graph_data, plan_result, rh, execVars, be, be_log, deliveries,
                   prior_rows, published, ws, publish_calls, executions, queue>>

\* await db.commit(): the pending row is inserted.
AdmitCommit(r) ==
    /\ requests[r].pc = "commit"
    /\ executions' = Append(executions,
          [status |-> "pending", budget_max_cost |-> requests[r].budget])
    /\ requests' = [requests EXCEPT ![r].pc = "dispatch",
                                    ![r].execution = Len(executions) + 1]
    /\ UNCHANGED <<graph_data, plan_result, rh, execVars, be, be_log, deliveries,
                   prior_rows, published, ws, publish_calls, queue>>

\* execute_workflow_task.delay(...) and the response.  With Task.typing
\* (the default) delay checks the arguments against the task's signature
\* and raises TypeError; without it the job is sent as it is.
AdmitDispatch(r) ==
    /\ requests[r].pc = "dispatch"
    /\ \E typing \in BOOLEAN :
          IF typing /\ ~ TaskAccepts(DelayKwargs)
          THEN /\ requests' = [requests EXCEPT ![r] = Respond(@, "500 TypeError")]
               /\ UNCHANGED queue
          ELSE /\ requests' = [requests EXCEPT ![r] =
                                  Respond([@ EXCEPT !.jobs = 1], "202")]
               /\ queue' = Append(queue, [execution_id |-> requests[r].execution,
                                          kwargs |-> DelayKwargs])
    /\ UNCHANGED <<graph_data, plan_result, rh, execVars, be, be_log, deliveries,
                   prior_rows, published, ws, publish_calls, executions>>

\* The worker takes a job and calls execute_workflow_task with its keyword
\* arguments: a TypeError fails the job (max_retries=0); otherwise
\* execute_workflow runs the execution to a terminal status.
WorkerRunsJob ==
    /\ queue # <<>>
    /\ queue' = Tail(queue)
    /\ IF TaskAccepts(Head(queue).kwargs)
       THEN \E final \in {"completed", "failed"} :
               executions' = [executions EXCEPT ![Head(queue).execution_id].status = final]
       ELSE UNCHANGED executions
    /\ UNCHANGED <<graph_data, plan_result, rh, execVars, be, be_log, deliveries,
                   prior_rows, published, ws, publish_calls, requests>>

NextAdmit ==
    \/ \E r \in DOMAIN requests : AdmitCheck(r)
    \/ \E r \in DOMAIN requests : AdmitCommit(r)
    \/ \E r \in DOMAIN requests : AdmitDispatch(r)
    \/ WorkerRunsJob

SpecAdmit == InitAdmit /\ [][NextAdmit]_vars

\* The server handles every request it has begun and the worker takes
\* every job that is queued.
SpecAdmitLive == SpecAdmit /\ WF_vars(NextAdmit)

(***************************************************************************)
(* BudgetEnforcer on its own                                               *)
(***************************************************************************)
\* Largest number of calls made on one enforcer.
MaxBudgetCalls == 5
\* The caps an enforcer is built with: none, 0, or a cap of 5.
BudgetCap == 5
TokenCaps == {None, Some(0), Some(BudgetCap)}
CostCaps == {None, Some(BudgetCap)}
\* The (tokens, cost) pairs recorded, one of them negative.
RecordedAmounts == {<<0, 1>>, <<1, 0>>, <<4, 4>>, <<-1, -1>>}

InitBudget ==
    /\ graph_data = NoGraph
    /\ plan_result = None
    /\ rh = None
    /\ ExecOff
    /\ be \in {Some(BudgetEnforcer(mt, mc)) : mt \in TokenCaps, mc \in CostCaps}
    /\ be_log = <<>>
    /\ deliveries = 0
    /\ prior_rows = <<>>
    /\ published = <<>>
    /\ ws = NoSocket
    /\ publish_calls = <<>>
    /\ AdmitOff

\* enforcer.record(tokens, cost)
Record ==
    /\ be # None
    /\ Len(be_log) < MaxBudgetCalls
    /\ \E a \in RecordedAmounts :
          /\ be' = Some(record(be.val, a[1], a[2]))
          /\ be_log' = Append(be_log, [op |-> "record", tokens |-> a[1], cost |-> a[2]])
    /\ UNCHANGED <<graph_data, plan_result, rh, execVars, deliveries, prior_rows,
                   published, admitVars, ws, publish_calls>>

\* enforcer.check()
Check ==
    /\ be # None
    /\ Len(be_log) < MaxBudgetCalls
    /\ be' = Some(check(be.val).self)
    /\ be_log' = Append(be_log, [op |-> "check", value |-> check(be.val).value])
    /\ UNCHANGED <<graph_data, plan_result, rh, execVars, deliveries, prior_rows,
                   published, admitVars, ws, publish_calls>>

NextBudget == Record \/ Check

SpecBudget == InitBudget /\ [][NextBudget]_vars

(***************************************************************************)
(* execute_workflow                                                        *)
(***************************************************************************)
\* The job of an execution admitted with one of the graphs and one of the
\* token caps is delivered to the worker.
ExecStart(graphs, token_caps) ==
    /\ graph_data \in graphs
    /\ plan_result = Some(create_execution_plan(graph_data))
    /\ rh = None
    /\ plan = create_execution_plan(graph_data).groups
    /\ pc = "start"
    /\ group_idx = 1
    /\ exec_record \in
          {[PendingExecution EXCEPT !.budget_max_tokens = c] : c \in token_caps}
    /\ completed_outputs = <<>>
    /\ skipped_nodes = {}
    /\ order_counter = 0
    /\ agent_exec = [n \in Range(graph_data.nodes) |-> NoRow]
    /\ fb_exec = [n \in Range(graph_data.nodes) |-> NoRow]
    /\ tasks = [n \in Range(graph_data.nodes) |-> NoTask]
    /\ be = None
    /\ be_log = <<>>
    /\ deliveries = 1
    /\ prior_rows = <<>>
    /\ published = <<>>
    /\ ws = NoSocket
    /\ publish_calls = <<>>
    /\ AdmitOff

Init == ExecStart(ExecGraphs(MaxNodes), {None})

\* execute_workflow up to the loop over plan.groups.
Prepare ==
    /\ pc = "start"
    /\ exec_record' = [exec_record EXCEPT !.status = "running",
                                          !.started_at = Some(Now)]
    /\ pc' = IF group_idx <= Len(plan) THEN "loop" ELSE "finalize"
    /\ UNCHANGED restVars
    /\ UNCHANGED <<graph_data, plan_result, rh, plan, group_idx,
                   completed_outputs, skipped_nodes, order_counter,
                   agent_exec, fb_exec, tasks>>

\* The loop over the agents of the current group, up to the gather.
StartGroup ==
    /\ pc = "loop"
    /\ LET g == plan[group_idx]
           s == GroupLoop(g.agents, g.group, graph_data, completed_outputs,
                          [agent_exec |-> agent_exec, tasks |-> tasks,
                           skipped_nodes |-> skipped_nodes,
                           order_counter |-> order_counter])
       IN /\ agent_exec' = s.agent_exec
          /\ tasks' = s.tasks
          /\ skipped_nodes' = s.skipped_nodes
          /\ order_counter' = s.order_counter
    /\ pc' = "gather"
    /\ UNCHANGED restVars
    /\ UNCHANGED <<graph_data, plan_result, rh, plan, group_idx, exec_record,
                   completed_outputs, fb_exec>>

\* What the task of node nid does once RetryHandler.execute has returned
\* r: the new row of the node, the fallback row if one is started, and the
\* task (returned, or awaiting the fallback's adapter call).
Settle(nid, r) ==
    LET t == tasks[nid]
        cfg == NodeConfig(graph_data, nid)
        row == RunningRow(nid, t.parallel_group, t.execution_order)
    IN IF r.success
       THEN [row |-> [CompletedRow(row, r.result.val) EXCEPT
                                 !.retries = r.attempts - 1],
             fb |-> NoRow,
             task |-> [t EXCEPT !.st = "done",
                                !.result = Some(CompletedResult(nid, r.result.val, FALSE))]]
       ELSE LET failed == [row EXCEPT !.status = "failed",
                                      !.error_message = r.error,
                                      !.retries = r.attempts - 1]
            IN IF should_fallback(cfg)
               THEN [row |-> failed,
                     fb |-> FallbackRow(get_fallback_id(cfg).val, nid,
                                        t.parallel_group, t.execution_order),
                     task |-> [t EXCEPT !.st = "fallback"]]
               ELSE [row |-> failed,
                     fb |-> NoRow,
                     task |-> [t EXCEPT !.st = "done",
                                        !.result = Some(FailedResult(nid))]]

\* _execute_agent_with_recovery from its start to the first adapter call:
\* the running row is added; _get_adapter raises for an unknown provider.
TaskStart(nid) ==
    /\ pc = "gather"
    /\ tasks[nid].st = "created"
    /\ LET t == tasks[nid]
           cfg == NodeConfig(graph_data, nid)
           begun == RetryBegin(cfg.max_retries)
       IN IF get_adapter_raises(cfg.provider)
          THEN /\ agent_exec' = [agent_exec EXCEPT ![nid] =
                      RunningRow(nid, t.parallel_group, t.execution_order)]
               /\ tasks' = [tasks EXCEPT ![nid] =
                      [t EXCEPT !.st = "done", !.result = Some(RaisedResult)]]
               /\ UNCHANGED fb_exec
          ELSE IF begun.returned = None
          THEN /\ agent_exec' = [agent_exec EXCEPT ![nid] =
                      RunningRow(nid, t.parallel_group, t.execution_order)]
               /\ tasks' = [tasks EXCEPT ![nid] =
                      [t EXCEPT !.st = "calling", !.rh = Some(begun)]]
               /\ UNCHANGED fb_exec
          ELSE LET s == Settle(nid, begun.returned.val)
               IN /\ agent_exec' = [agent_exec EXCEPT ![nid] = s.row]
                  /\ fb_exec' = [fb_exec EXCEPT ![nid] = s.fb]
                  /\ tasks' = [tasks EXCEPT ![nid] = [s.task EXCEPT !.rh = Some(begun)]]
    /\ UNCHANGED restVars
    /\ UNCHANGED <<graph_data, plan_result, rh, plan, pc, group_idx, exec_record,
                   completed_outputs, skipped_nodes, order_counter>>

\* One adapter call of the node's task returns or raises inside
\* RetryHandler.execute; when execute returns, the task goes on to its
\* next await or to its return.
TaskAdapterReturns(nid) ==
    /\ pc = "gather"
    /\ tasks[nid].st = "calling"
    /\ \E outcome \in AdapterOutcomes :
          LET r == RetryAttempt(tasks[nid].rh.val, outcome)
          IN IF r.returned = None
             THEN /\ tasks' = [tasks EXCEPT ![nid].rh = Some(r)]
                  /\ UNCHANGED <<agent_exec, fb_exec>>
             ELSE LET s == Settle(nid, r.returned.val)
                  IN /\ agent_exec' = [agent_exec EXCEPT ![nid] = s.row]
                     /\ fb_exec' = [fb_exec EXCEPT ![nid] = s.fb]
                     /\ tasks' = [tasks EXCEPT ![nid] = [s.task EXCEPT !.rh = Some(r)]]
    /\ UNCHANGED restVars
    /\ UNCHANGED <<graph_data, plan_result, rh, plan, pc, group_idx, exec_record,
                   completed_outputs, skipped_nodes, order_counter>>

\* _execute_fallback from its adapter lookup to its return: one attempt,
\* any exception (an unknown provider included) makes the node failed.
TaskFallbackReturns(nid) ==
    /\ pc = "gather"
    /\ tasks[nid].st = "fallback"
    /\ LET fid == get_fallback_id(NodeConfig(graph_data, nid)).val
           fcfg == NodeConfig(graph_data, fid)
       IN \E outcome \in AdapterOutcomes :
             /\ get_adapter_raises(fcfg.provider) => ~ outcome.ok
             /\ IF outcome.ok
                THEN /\ fb_exec' = [fb_exec EXCEPT
                           ![nid] = CompletedRow(@, outcome.value)]
                     /\ tasks' = [tasks EXCEPT
                           ![nid].st = "done",
                           ![nid].result = Some(CompletedResult(nid, outcome.value, TRUE))]
                ELSE /\ fb_exec' = [fb_exec EXCEPT
                           ![nid].status = "failed",
                           ![nid].error_message = Some(outcome.value)]
                     /\ tasks' = [tasks EXCEPT
                           ![nid].st = "done",
                           ![nid].result = Some(FailedResult(nid))]
    /\ UNCHANGED restVars
    /\ UNCHANGED <<graph_data, plan_result, rh, plan, pc, group_idx, exec_record,
                   completed_outputs, skipped_nodes, order_counter, agent_exec>>

\* A gather that returns as soon as one task has returned or raised.
GroupFinishedAny ==
    \E nid \in Range(plan[group_idx].agents) : tasks[nid].st \in {"none", "done"}

\* Every task of the current group has returned or raised.
GroupFinished ==
    \A nid \in Range(plan[group_idx].agents) : tasks[nid].st \in {"none", "done"}

\* gather returns: the results are applied in task order, the session is
\* flushed, and the loop goes to the next group.
GatherReturns ==
    /\ pc = "gather"
    /\ GroupFinished
    /\ LET s == ApplyResults(plan[group_idx].agents, tasks,
                             EdgesFrom(graph_data.edges, <<>>),
                             [completed_outputs |-> completed_outputs,
                              skipped_nodes |-> skipped_nodes,
                              exec_record |-> exec_record])
       IN /\ completed_outputs' = s.completed_outputs
          /\ skipped_nodes' = s.skipped_nodes
          /\ exec_record' = s.exec_record
    /\ group_idx' = group_idx + 1
    /\ pc' = IF group_idx + 1 <= Len(plan) THEN "loop" ELSE "finalize"
    /\ UNCHANGED restVars
    /\ UNCHANGED <<graph_data, plan_result, rh, plan, order_counter,
                   agent_exec, fb_exec, tasks>>

\* select(AgentExecution).where(status == "failed"): the failed rows of the
\* execution, of both kinds and of every delivery.
failed_agents ==
    {agent_exec[n] : n \in {m \in DOMAIN agent_exec : agent_exec[m].status = "failed"}}
        \cup {fb_exec[n] : n \in {m \in DOMAIN fb_exec : fb_exec[m].status = "failed"}}
        \cup {prior_rows[i] : i \in {j \in 1..Len(prior_rows) :
                                        prior_rows[j].status = "failed"}}

\* A final status that is failed as soon as one row failed.
FinalRecordAnyFailed(rec, failed, completed) ==
    IF failed # {}
    THEN [rec EXCEPT !.status = "failed",
                     !.error_message = Some("All agents failed")]
    ELSE [rec EXCEPT !.status = "completed"]

\* if failed_agents and not completed_outputs: ... elif ...: ... else: ...
FinalRecord(rec, failed, completed) ==
    IF failed # {} /\ DOMAIN completed = {}
    THEN [rec EXCEPT !.status = "failed",
                     !.error_message = Some("All agents failed")]
    ELSE IF failed # {}
    THEN [rec EXCEPT !.status = "completed"]
    ELSE [rec EXCEPT !.status = "completed"]

\* The final status, after the last group.
Finalize ==
    /\ pc = "finalize"
    /\ exec_record' = [FinalRecord(exec_record, failed_agents, completed_outputs)
                          EXCEPT !.completed_at = Some(Now)]
    /\ pc' = "done"
    /\ UNCHANGED restVars
    /\ UNCHANGED <<graph_data, plan_result, rh, plan, group_idx,
                   completed_outputs, skipped_nodes, order_counter,
                   agent_exec, fb_exec, tasks>>

Next ==
    \/ Prepare
    \/ StartGroup
    \/ \E nid \in DOMAIN tasks : TaskStart(nid)
    \/ \E nid \in DOMAIN tasks : TaskAdapterReturns(nid)
    \/ \E nid \in DOMAIN tasks : TaskFallbackReturns(nid)
    \/ GatherReturns
    \/ Finalize

Spec == Init /\ [][Next]_vars

\* The steps execute_workflow takes by itself; the return of an adapter
\* call is the provider's.
ExecutorSteps ==
    \/ Prepare
    \/ StartGroup
    \/ \E nid \in DOMAIN tasks : TaskStart(nid)
    \/ GatherReturns
    \/ Finalize

\* The event loop runs every step that is ready; a provider may leave a
\* call without an answer.
SpecNoAnswer == Spec /\ WF_vars(ExecutorSteps)

(***************************************************************************)
(* execute_workflow_task: the job delivered more than once                 *)
(***************************************************************************)
\* Largest node id of a graph whose job is delivered again.
MaxDeliveryNodes == 2
\* How often one job is delivered at most.
MaxDeliveries == 2
\* The budget_max_tokens of an execution admitted with a budget.
ExecBudgetTokens == 3

InitDelivery ==
    ExecStart(ExecGraphs(MaxDeliveryNodes), {None, Some(ExecBudgetTokens)})

\* The rows of the session, as committed at the end of execute_workflow.
SessionRows ==
    LET n == Len(graph_data.nodes)
        all == [i \in 1..(2 * n) |->
                   IF i <= n THEN agent_exec[i] ELSE fb_exec[i - n]]
    IN SelectSeq(all, LAMBDA r : r # NoRow)

\* task_acks_late: the worker is lost after the commit of execute_workflow
\* and before the job is acknowledged, and the broker delivers the job
\* again; execute_workflow_task runs execute_workflow in a new session
\* with the same execution_id, plan and graph.
Redeliver ==
    /\ pc = "done"
    /\ deliveries < MaxDeliveries
    /\ deliveries' = deliveries + 1
    /\ prior_rows' = prior_rows \o SessionRows
    /\ pc' = "start"
    /\ group_idx' = 1
    /\ completed_outputs' = <<>>
    /\ skipped_nodes' = {}
    /\ order_counter' = 0
    /\ agent_exec' = [n \in DOMAIN agent_exec |-> NoRow]
    /\ fb_exec' = [n \in DOMAIN fb_exec |-> NoRow]
    /\ tasks' = [n \in DOMAIN tasks |-> NoTask]
    /\ UNCHANGED <<graph_data, plan_result, rh, plan, exec_record, be, be_log,
                   published, admitVars, ws, publish_calls>>

NextDelivery == Next \/ Redeliver

SpecDelivery == InitDelivery /\ [][NextDelivery]_vars

(***************************************************************************)
(* api/websocket.py: one connection of the bridge to an existing           *)
(* execution.  The channel is fed by the functions of engine/events.py;    *)
(* the executor moves the stored status and publishes nothing.             *)
(***************************************************************************)
\* How many calls of _publish are made.
MaxPublished == 4

\* The events a caller of engine/events.py publishes.
BridgeEvents ==
    {agent_started(<<>>, 1)[1], agent_completed(<<>>, 1)[1],
     execution_completed(<<>>, "completed")[1]}

\* The message sent at connect time for an execution that is terminal.
SyntheticCompleted(execution) ==
    [type |-> "execution_completed", status |-> execution.status,
     totals |-> [tokens_prompt |-> execution.total_tokens_prompt,
                 tokens_completion |-> execution.total_tokens_completion,
                 cost |-> execution.total_cost]]

\* if event.get("type") == "execution_completed": close and return
ClosesSocketNever(event) == FALSE

ClosesSocket(event) == event.type = "execution_completed"

Socket(pc_, seen, sent, close_code) ==
    [pc |-> pc_, seen |-> seen, sub_at |-> 0, inbox |-> <<>>,
     received |-> <<>>, sent |-> sent, close_code |-> close_code]

InitBridge ==
    /\ graph_data = NoGraph
    /\ plan_result = None
    /\ rh = None
    /\ plan = <<>>
    /\ pc = "off"
    /\ group_idx = 0
    /\ exec_record = PendingExecution
    /\ completed_outputs = <<>>
    /\ skipped_nodes = {}
    /\ order_counter = 0
    /\ agent_exec = <<>>
    /\ fb_exec = <<>>
    /\ tasks = <<>>
    /\ RestOff

\* The read of the stored execution, accept, and for a terminal execution
\* the synthetic message and close(1000).
WsConnect ==
    /\ ws.pc = "none"
    /\ ws' = IF exec_record.status \in {"completed", "failed"}
             THEN Socket("closed", exec_record.status,
                         <<SyntheticCompleted(exec_record)>>, Some(1000))
             ELSE Socket("accepted", exec_record.status, <<>>, None)
    /\ UNCHANGED <<graph_data, plan_result, rh, execVars, be, be_log, deliveries,
                   prior_rows, published, publish_calls, admitVars>>

\* await pubsub.subscribe(channel): messages published from now on arrive.
WsSubscribe ==
    /\ ws.pc = "accepted"
    /\ ws' = [ws EXCEPT !.pc = "subscribed", !.sub_at = Len(published)]
    /\ UNCHANGED <<graph_data, plan_result, rh, execVars, be, be_log, deliveries,
                   prior_rows, published, publish_calls, admitVars>>

\* One round of the loop with a message: get_message, json.loads,
\* send_json, and close(1000) after execution_completed.
WsForward ==
    /\ ws.pc = "subscribed"
    /\ ws.inbox # <<>>
    /\ LET event == Head(ws.inbox)
       IN ws' = [ws EXCEPT !.inbox = Tail(@),
                           !.received = Append(@, event),
                           !.sent = Append(@, event),
                           !.pc = IF ClosesSocket(event) THEN "closed" ELSE @,
                           !.close_code = IF ClosesSocket(event) THEN Some(1000) ELSE @]
    /\ UNCHANGED <<graph_data, plan_result, rh, execVars, be, be_log, deliveries,
                   prior_rows, published, publish_calls, admitVars>>

\* A call of _publish: when redis takes the event it goes to the channel
\* and to the subscription.
PublishEvent ==
    /\ Len(publish_calls) < MaxPublished
    /\ \E event \in BridgeEvents : \E outcome \in PublishOutcomes :
          LET r == _publish(published, event, outcome)
          IN /\ published' = r.channel
             /\ publish_calls' = Append(publish_calls,
                   [event |-> event, outcome |-> outcome, raised |-> r.raised,
                    logged |-> r.logged])
             /\ ws' = IF ws.pc = "subscribed" /\ r.channel # published
                      THEN [ws EXCEPT !.inbox = Append(@, event)]
                      ELSE ws
    /\ UNCHANGED <<graph_data, plan_result, rh, execVars, be, be_log, deliveries,
                   prior_rows, admitVars>>

\* execute_workflow commits once, at its end: for the other sessions the
\* stored status moves from pending to completed or failed.
ExecutionEnds ==
    /\ exec_record.status = "pending"
    /\ \E final \in {"completed", "failed"} :
          exec_record' = [exec_record EXCEPT !.status = final,
                                             !.started_at = Some(Now),
                                             !.completed_at = Some(Now)]
    /\ UNCHANGED <<graph_data, plan_result, rh, plan, pc, group_idx,
                   completed_outputs, skipped_nodes, order_counter, agent_exec,
                   fb_exec, tasks, restVars>>

NextBridge ==
    \/ WsConnect
    \/ WsSubscribe
    \/ WsForward
    \/ PublishEvent
    \/ ExecutionEnds

SpecBridge == InitBridge /\ [][NextBridge]_vars

(***************************************************************************)
(* Vocabulary of the properties                                            *)
(***************************************************************************)
GraphNodes == Range(graph_data.nodes)

\* The edges between two nodes of the graph.
InnerEdges ==
    {e \in Range(graph_data.edges) : e.source \in GraphNodes /\ e.target \in GraphNodes}

Successors(S) == {e.target : e \in {x \in InnerEdges : x.source \in S}}

RECURSIVE ReachFrom(_, _)
ReachFrom(frontier, seen) ==
    LET next == Successors(frontier) \ seen
    IN IF next = {} THEN seen ELSE ReachFrom(next, seen \cup next)

\* The nodes reachable from n through one or more out-edges.
Reachable(n) == ReachFrom({n}, {})

\* The position in plan.groups of the group of a planned node.
GroupPos(n) == CHOOSE i \in 1..Len(plan) : n \in Range(plan[i].agents)

\* The task of n returned a completed result (its own or its fallback's).
Completed(n) == tasks[n].st = "done" /\ tasks[n].result.val.status = "completed"
\* The task of n returned a failed result.
FinallyFailed(n) == tasks[n].st = "done" /\ tasks[n].result.val.status = "failed"
\* The task of n raised, and gather handed back the exception.
Raised(n) == tasks[n].st = "done" /\ tasks[n].result.val.status = "raised"

\* The results of the group of n have been applied.
Applied(n) == GroupPos(n) < group_idx
\* The loop over the agents of the group of n has handled n.
Reached(n) == GroupPos(n) < group_idx \/ (GroupPos(n) = group_idx /\ pc = "gather")

SkippedFor(n, reason) ==
    /\ agent_exec[n].status = "skipped"
    /\ agent_exec[n].error_message = Some(reason)
    /\ tasks[n].st = "none"
    /\ fb_exec[n] = NoRow

(***************************************************************************)
(* C1.  Every node with a completed result had, when it was enqueued, a    *)
(* completed output (its own or its fallback's) for every source of an     *)
(* inbound edge.  The code does not keep this.                             *)
(***************************************************************************)
C1_CompletedDepsCompleted ==
    \A n \in GraphNodes :
        Completed(n) =>
            \A e \in InnerEdges :
                e.target = n => e.source \in DOMAIN tasks[n].dependency_outputs

(***************************************************************************)
(* C2.  Once the results of a finally failed node are applied, every node  *)
(* reachable from it is in skipped_nodes; such a node, when its group is   *)
(* reached, gets a skipped row with the reason "dependency failed" and no  *)
(* task (no adapter call, no fallback); skipped_nodes holds nothing but    *)
(* nodes reachable from a failed node and nodes blocked by a condition;    *)
(* and after the last group every planned node has been handled.           *)
(***************************************************************************)
C2_FailurePropagates ==
    /\ \A f \in GraphNodes :
          FinallyFailed(f) /\ Applied(f) => Reachable(f) \subseteq skipped_nodes
    /\ \A f \in GraphNodes :
          FinallyFailed(f) =>
              \A m \in Reachable(f) :
                  Reached(m) => SkippedFor(m, SkipDependencyFailed)
    /\ skipped_nodes \subseteq
          UNION {Reachable(f) : f \in {x \in GraphNodes : FinallyFailed(x) /\ Applied(x)}}
            \cup {n \in GraphNodes : SkippedFor(n, SkipConditionNotMet)}
    /\ pc \in {"finalize", "done"} =>
          \A n \in GraphNodes : tasks[n].st = "done" \/ agent_exec[n].status = "skipped"

\* A node failed, a node two edges downstream of it was skipped for that
\* reason, a node not downstream of it ran, and the execution finished.
C2_Witness ==
    /\ pc = "done"
    /\ \E f \in GraphNodes :
          /\ FinallyFailed(f)
          /\ \E m \in Reachable(f) :
                /\ m \notin Successors({f})
                /\ SkippedFor(m, SkipDependencyFailed)

(***************************************************************************)
(* C3.  Group barrier: a node of a later group has no task, no row and no  *)
(* fallback row until every node of every earlier group has a returned or  *)
(* raised task, or was skipped.                                            *)
(***************************************************************************)
Started(n) == tasks[n].st # "none" \/ agent_exec[n] # NoRow \/ fb_exec[n] # NoRow
Finished(n) == tasks[n].st = "done" \/ (tasks[n].st = "none" /\ agent_exec[n].status = "skipped")

C3_GroupBarrier ==
    \A n \in GraphNodes : \A m \in GraphNodes :
        GroupPos(m) < GroupPos(n) /\ Started(n) => Finished(m)

\* A task of the second group awaits its adapter after one task of the
\* first group raised and another returned failed.
C3_Witness ==
    \E n \in GraphNodes : \E m1 \in GraphNodes : \E m2 \in GraphNodes :
        /\ GroupPos(m1) < GroupPos(n) /\ GroupPos(m2) = GroupPos(m1)
        /\ tasks[n].st = "calling"
        /\ Raised(m1)
        /\ FinallyFailed(m2)

(***************************************************************************)
(* C4.  For a non-empty acyclic graph create_execution_plan returns a      *)
(* plan whose groups hold the nodes of the graph and nothing else, each    *)
(* node once, and every edge between two nodes of the graph goes from a    *)
(* group of smaller index to a group of larger index.                      *)
(***************************************************************************)
IsAcyclicGraph == \A n \in GraphNodes : n \notin Reachable(n)

\* How many times n is listed in the groups.
Occurrences(groups, n) ==
    Cardinality({ij \in (1..Len(groups)) \X (1..MaxPlanNodes + 1) :
                    /\ ij[2] <= Len(groups[ij[1]].agents)
                    /\ groups[ij[1]].agents[ij[2]] = n})

\* The index of a group that lists n.
GroupNumber(groups, n) ==
    groups[CHOOSE i \in 1..Len(groups) : n \in Range(groups[i].agents)].group

C4_PlanLayersTheGraph ==
    (plan_result # None /\ graph_data.nodes # <<>> /\ IsAcyclicGraph) =>
        LET r == plan_result.val
        IN /\ r.kind = "ExecutionPlan"
           /\ \A i \in 1..Len(r.groups) : Range(r.groups[i].agents) \subseteq GraphNodes
           /\ \A n \in GraphNodes : Occurrences(r.groups, n) = 1
           /\ \A e \in InnerEdges :
                 GroupNumber(r.groups, e.source) < GroupNumber(r.groups, e.target)

\* A plan of two or more groups for a graph with an edge that names no node.
C4_Witness ==
    /\ plan_result # None
    /\ plan_result.val.kind = "ExecutionPlan"
    /\ Len(plan_result.val.groups) >= 2
    /\ Range(graph_data.edges) # InnerEdges

(***************************************************************************)
(* C5.  For a graph with a cycle among its nodes (a self-loop included)    *)
(* create_execution_plan raises CircularDependencyError, returns no plan,  *)
(* and cycle_nodes holds every node that lies on a cycle.                  *)
(***************************************************************************)
OnCycle(n) == n \in Reachable(n)

C5_CycleRaises ==
    (plan_result # None /\ \E n \in GraphNodes : OnCycle(n)) =>
        LET r == plan_result.val
        IN /\ r.kind = "CircularDependencyError"
           /\ \A n \in GraphNodes : OnCycle(n) => n \in Range(r.cycle_nodes)

\* The error for a graph with a cycle of two nodes, a node that is not on
\* it, and cycle_nodes that also holds a node downstream of the cycle.
C5_Witness ==
    /\ plan_result # None
    /\ plan_result.val.kind = "CircularDependencyError"
    /\ \E e \in InnerEdges : e.source # e.target /\ e.source \in Reachable(e.target)
    /\ \E n \in Range(plan_result.val.cycle_nodes) : ~ OnCycle(n)

(***************************************************************************)
(* C6.  After finalization the status is completed when some node          *)
(* completed (itself or through its fallback); it is failed, with          *)
(* error_message "All agents failed", exactly when no node completed and   *)
(* some row failed; otherwise it is completed and error_message is null.   *)
(* error_message is null until finalization.                               *)
(***************************************************************************)
AnyCompleted == \E n \in GraphNodes : Completed(n)
AnyFailedRow ==
    \E n \in GraphNodes : agent_exec[n].status = "failed" \/ fb_exec[n].status = "failed"

C6_FinalStatus ==
    /\ pc # "done" => exec_record.error_message = None
    /\ pc = "done" =>
          /\ AnyCompleted => exec_record.status = "completed"
          /\ (exec_record.status = "failed"
                /\ exec_record.error_message = Some("All agents failed"))
                <=> (~ AnyCompleted /\ AnyFailedRow)
          /\ ~ (~ AnyCompleted /\ AnyFailedRow) =>
                (exec_record.status = "completed" /\ exec_record.error_message = None)

\* A finished execution, completed, in which one node completed, one
\* failed and one was skipped.
C6_Witness ==
    /\ pc = "done"
    /\ exec_record.status = "completed"
    /\ \E n \in GraphNodes : Completed(n)
    /\ \E n \in GraphNodes : FinallyFailed(n)
    /\ \E n \in GraphNodes : agent_exec[n].status = "skipped"

(***************************************************************************)
(* C7.  A fallback row exists for a node exactly when its retries are      *)
(* exhausted and its fallback_agent_id is neither absent nor empty.  A     *)
(* completed fallback makes the node's result completed with the           *)
(* fallback's text, stored in completed_outputs under the node's own id,   *)
(* and the node puts nothing into skipped_nodes; a failed fallback makes   *)
(* the node's result failed and its downstream skipped.                    *)
(***************************************************************************)
HasFallbackId(n) ==
    /\ graph_data.data[n].fallback_agent_id # None
    /\ graph_data.data[n].fallback_agent_id.val # EmptyId

RetriesExhausted(n) ==
    /\ tasks[n].st \in {"fallback", "done"}
    /\ tasks[n].rh # None
    /\ tasks[n].rh.val.returned # None
    /\ ~ tasks[n].rh.val.returned.val.success

C7_FallbackOutcome ==
    \A n \in GraphNodes :
        /\ fb_exec[n] # NoRow <=> (RetriesExhausted(n) /\ HasFallbackId(n))
        /\ fb_exec[n] # NoRow =>
              /\ fb_exec[n].is_fallback
              /\ fb_exec[n].fallback_for = Some(n)
              /\ fb_exec[n].agent_node_id = graph_data.data[n].fallback_agent_id.val
              /\ agent_exec[n].status = "failed"
        /\ fb_exec[n].status = "completed" =>
              /\ Completed(n)
              /\ tasks[n].result.val.node_id = n
              /\ Some(tasks[n].result.val.text) = fb_exec[n].output_data
              /\ Applied(n) =>
                    /\ n \in DOMAIN completed_outputs
                    /\ Some(completed_outputs[n].text) = fb_exec[n].output_data
                    /\ \A m \in skipped_nodes :
                          \/ SkippedFor(m, SkipConditionNotMet)
                          \/ \E f \in GraphNodes : FinallyFailed(f) /\ m \in Reachable(f)
        /\ fb_exec[n].status = "failed" =>
              /\ FinallyFailed(n)
              /\ Applied(n) =>
                    /\ n \notin DOMAIN completed_outputs
                    /\ Reachable(n) \subseteq skipped_nodes

\* A node failed twice, its fallback completed, and a node downstream of
\* it ran with the fallback's text as the output of the node.
C7_Witness ==
    \E n \in GraphNodes : \E m \in GraphNodes :
        /\ agent_exec[n].status = "failed"
        /\ agent_exec[n].retries = 1
        /\ fb_exec[n].status = "completed"
        /\ m \in Successors({n})
        /\ Completed(m)
        /\ n \in DOMAIN tasks[m].dependency_outputs
        /\ Some(tasks[m].dependency_outputs[n].text) = fb_exec[n].output_data

(***************************************************************************)
(* C8.  RetryHandler.execute calls the wrapped function at most            *)
(* max_retries + 1 times and never after a call that returned; when it     *)
(* returns, attempts is the number of calls made, and it reports success   *)
(* with the value of the last call if that call returned, else failure     *)
(* with the last error after max_retries + 1 failed calls.  Until then     *)
(* every call made has failed and fewer than max_retries + 1 were made.    *)
(***************************************************************************)
LastOf(q) == q[Len(q)]

C8_RetryContract ==
    rh # None =>
        LET r == rh.val
            n == Len(r.calls)
        IN /\ n <= Max({r.max_retries + 1, 0})
           /\ \A i \in 1..(n - 1) : ~ r.calls[i].ok
           /\ r.returned = None => n < r.max_retries + 1 /\ \A i \in 1..n : ~ r.calls[i].ok
           /\ r.returned # None =>
                 /\ r.returned.val.attempts = n
                 /\ r.returned.val.success <=> (n > 0 /\ LastOf(r.calls).ok)
                 /\ r.returned.val.success =>
                       r.returned.val.result = Some(LastOf(r.calls).value)
                 /\ ~ r.returned.val.success =>
                       /\ n = Max({r.max_retries + 1, 0})
                       /\ r.returned.val.error =
                             Some(IF n = 0 THEN "" ELSE LastOf(r.calls).value)

\* Failure reported after four failed calls with max_retries 3.
C8_Witness ==
    /\ rh # None
    /\ rh.val.max_retries = 3
    /\ rh.val.returned # None
    /\ ~ rh.val.returned.val.success
    /\ rh.val.returned.val.attempts = 4

(***************************************************************************)
(* C9.  A node whose group was reached and that was not in skipped_nodes   *)
(* is skipped with the reason "condition not met", and put into            *)
(* skipped_nodes, exactly when some inbound edge has a non-empty           *)
(* condition, a source in completed_outputs, and a condition that is not   *)
(* "default" (in any case), not the source's text and not a substring of   *)
(* it; otherwise a task is created for it.                                 *)
(***************************************************************************)
ConditionMatches(c, t) ==
    \/ Lower(c) = <<"d", "e", "f", "a", "u", "l", "t">>
    \/ c = t
    \/ \E i \in 1..Len(t) : \E j \in i..Len(t) : SubSeq(t, i, j) = c

BlockingEdge(e) ==
    /\ e.condition # None
    /\ e.condition.val # <<>>
    /\ e.source \in DOMAIN completed_outputs
    /\ ~ ConditionMatches(e.condition.val, completed_outputs[e.source].text)

ConditionBlocked(n) == \E e \in InnerEdges : e.target = n /\ BlockingEdge(e)

C9_ConditionalSkip ==
    \A n \in GraphNodes :
        (Reached(n) /\ ~ SkippedFor(n, SkipDependencyFailed)) =>
            IF ConditionBlocked(n)
            THEN SkippedFor(n, SkipConditionNotMet) /\ n \in skipped_nodes
            ELSE tasks[n].st # "none" /\ agent_exec[n].status # "skipped"

\* A node skipped for its condition that has two inbound conditional
\* edges from completed sources: one that blocks it, and one whose
\* condition matches only as a proper substring of the source's text.
C9_Witness ==
    \E n \in GraphNodes : \E e1 \in InnerEdges : \E e2 \in InnerEdges :
        /\ SkippedFor(n, SkipConditionNotMet)
        /\ e1.target = n /\ e2.target = n
        /\ BlockingEdge(e1)
        /\ e2.condition # None /\ e2.condition.val # <<>>
        /\ e2.source \in DOMAIN completed_outputs
        /\ e2.condition.val # completed_outputs[e2.source].text
        /\ ConditionMatches(e2.condition.val, completed_outputs[e2.source].text)

(***************************************************************************)
(* C10.  Every node reachable from a node skipped because a condition was  *)
(* not met is itself skipped, and never run, when its group is reached.    *)
(* The code does not keep this.                                            *)
(***************************************************************************)
C10_BlockedDownstreamSkipped ==
    \A n \in GraphNodes :
        SkippedFor(n, SkipConditionNotMet) =>
            \A m \in Reachable(n) :
                Reached(m) => agent_exec[m].status = "skipped" /\ tasks[m].st = "none"


(***************************************************************************)
(* C11.  When the execution is finished, a node has a skipped row if and   *)
(* only if no path from a node without dependencies to it is clean, a      *)
(* path being clean when no node on it before the last has failed (or      *)
(* raised) and no edge on it is blocked by its condition.                  *)
(***************************************************************************)
\* An edge whose condition was evaluated on the source's text and failed.
BlockedEdge(e) ==
    /\ e.condition # None
    /\ e.condition.val # <<>>
    /\ e.source \in DOMAIN completed_outputs
    /\ LET c == e.condition.val
           t == completed_outputs[e.source].text
       IN ~ (\/ Lower(c) = <<"d", "e", "f", "a", "u", "l", "t">>
             \/ c = t
             \/ \E i \in 1..Len(t) : \E j \in i..Len(t) : SubSeq(t, i, j) = c)

Roots == {n \in GraphNodes : ~ \E e \in InnerEdges : e.target = n}

RECURSIVE CleanFrom(_)
\* The nodes that a clean path reaches from the set S of such nodes.
CleanFrom(S) ==
    LET more == {e.target : e \in {x \in InnerEdges :
                     /\ x.source \in S
                     /\ ~ FinallyFailed(x.source)
                     /\ ~ Raised(x.source)
                     /\ ~ BlockedEdge(x)}}
    IN IF more \subseteq S THEN S ELSE CleanFrom(S \cup more)

C11_SkippedIffNoCleanPath ==
    pc = "done" =>
        \A n \in GraphNodes :
            agent_exec[n].status = "skipped" <=> n \notin CleanFrom(Roots)

(***************************************************************************)
(* C12.  After the last group the execution's total_tokens_prompt +        *)
(* total_tokens_completion is the sum of tokens_prompt + tokens_completion *)
(* over all rows of the execution, fallback rows included, and total_cost  *)
(* is the sum of their costs.                                              *)
(***************************************************************************)
\* The rows of the execution, one after the other.
AllRows ==
    LET n == Len(graph_data.nodes)
        all == [i \in 1..(2 * n) |->
                   IF i <= n THEN agent_exec[i] ELSE fb_exec[i - n]]
    IN SelectSeq(all, LAMBDA r : r # NoRow)

RECURSIVE SumTokens(_)
SumTokens(rows) ==
    IF rows = <<>> THEN 0
    ELSE Head(rows).tokens_prompt + Head(rows).tokens_completion + SumTokens(Tail(rows))

RECURSIVE SumCost(_)
SumCost(rows) ==
    IF rows = <<>> THEN 0 ELSE Head(rows).cost + SumCost(Tail(rows))

C12_TotalsAreSums ==
    pc \in {"finalize", "done"} =>
        /\ exec_record.total_tokens_prompt + exec_record.total_tokens_completion
              = SumTokens(AllRows)
        /\ exec_record.total_cost = SumCost(AllRows)

\* A finished execution with a row completed by its node, a row completed
\* by a fallback, and a failed row.
C12_Witness ==
    /\ pc = "done"
    /\ \E n \in GraphNodes : agent_exec[n].status = "completed"
    /\ \E n \in GraphNodes :
          fb_exec[n].status = "completed" /\ agent_exec[n].status = "failed"
    /\ exec_record.total_tokens_completion > exec_record.total_tokens_prompt
    /\ exec_record.total_cost = SumCost(AllRows)

NonNegativeRecords ==
    \A i \in 1..Len(be_log) :
        be_log[i].op = "record" => be_log[i].tokens >= 0 /\ be_log[i].cost >= 0

ChecksReturning(v) ==
    {i \in 1..Len(be_log) : be_log[i].op = "check" /\ be_log[i].value = v}

C17_WarningOnceExceededSticks ==
    NonNegativeRecords =>
        /\ Cardinality(ChecksReturning("warning")) <= 1
        /\ \A i \in ChecksReturning("exceeded") : \A j \in (i + 1)..Len(be_log) :
              be_log[j].op = "check" => be_log[j].value = "exceeded"

\* A warning, a later check that returns "ok", and then "exceeded".
C17_Witness ==
    /\ NonNegativeRecords
    /\ \E i \in ChecksReturning("warning") : \E j \in ChecksReturning("ok") :
          \E k \in ChecksReturning("exceeded") : i < j /\ j < k

(***************************************************************************)
(* C18.  Every check returns "exceeded" exactly when the cost used has     *)
(* reached a configured max_cost or the tokens used a configured           *)
(* max_tokens; otherwise "warning" exactly when no check returned          *)
(* "warning" before and the usage is at least 80% of a configured cap;     *)
(* otherwise "ok".  Without any cap has_budget is false and every check    *)
(* returns "ok".                                                           *)
(***************************************************************************)
RECURSIVE RecordedBefore(_, _)
\* <<tokens, cost>> recorded by the calls before call i.
RecordedBefore(log, i) ==
    IF i <= 1 THEN <<0, 0>>
    ELSE LET r == RecordedBefore(log, i - 1)
         IN IF log[i - 1].op = "record"
            THEN <<r[1] + log[i - 1].tokens, r[2] + log[i - 1].cost>>
            ELSE r

ExpectedCheck(i) ==
    LET used == RecordedBefore(be_log, i)
        mt == be.val.max_tokens
        mc == be.val.max_cost
        warned == \E j \in ChecksReturning("warning") : j < i
    IN IF (mc # None /\ used[2] >= mc.val) \/ (mt # None /\ used[1] >= mt.val)
       THEN "exceeded"
       ELSE IF ~ warned /\ (\/ mc # None /\ 10 * used[2] >= 8 * mc.val
                            \/ mt # None /\ 10 * used[1] >= 8 * mt.val)
       THEN "warning"
       ELSE "ok"

C18_CheckValue ==
    be # None =>
        /\ \A i \in 1..Len(be_log) :
              be_log[i].op = "check" => be_log[i].value = ExpectedCheck(i)
        /\ has_budget(be.val) <=> (be.val.max_tokens # None \/ be.val.max_cost # None)
        /\ (be.val.max_tokens = None /\ be.val.max_cost = None) =>
              /\ ~ has_budget(be.val)
              /\ ChecksReturning("warning") \cup ChecksReturning("exceeded") = {}

\* An enforcer with both caps whose checks returned "ok", "warning" and, with
\* the usage exactly at a cap, "exceeded".
C18_Witness ==
    /\ be # None
    /\ be.val.max_tokens = Some(BudgetCap)
    /\ be.val.max_cost = Some(BudgetCap)
    /\ ChecksReturning("ok") # {}
    /\ ChecksReturning("warning") # {}
    /\ ChecksReturning("exceeded") # {}
    /\ be.val.used_cost = BudgetCap \/ be.val.used_tokens = BudgetCap

(***************************************************************************)
(* C14.  The status of an execution only moves from pending to running     *)
(* and from running to completed or failed, and once it is completed or    *)
(* failed no step changes the status or the totals, a second delivery of   *)
(* the job included.                                                       *)
(***************************************************************************)
Terminal(rec) == rec.status \in {"completed", "failed"}

C14_StatusMachine ==
    [][/\ \/ exec_record'.status = exec_record.status
          \/ exec_record.status = "pending" /\ exec_record'.status = "running"
          \/ exec_record.status = "running" /\ Terminal(exec_record')
       /\ Terminal(exec_record) => exec_record' = exec_record]_vars

(***************************************************************************)
(* C19.  Once the tokens of the completed agents have reached the          *)
(* execution's budget_max_tokens, no further agent is started.             *)
(***************************************************************************)
TokenCapReached ==
    /\ exec_record.budget_max_tokens # None
    /\ exec_record.total_tokens_prompt + exec_record.total_tokens_completion
          >= exec_record.budget_max_tokens.val

C19_NoAgentAfterCap ==
    [][TokenCapReached =>
          \A n \in DOMAIN tasks : tasks[n].st = "none" => tasks'[n].st = "none"]_vars

(***************************************************************************)
(* C20.  When execute_workflow has set the terminal status, exactly one    *)
(* execution_completed event has been published on the execution's         *)
(* channel.                                                                *)
(***************************************************************************)
C20_OneCompletedEvent ==
    pc = "done" =>
        Cardinality({i \in 1..Len(published) :
                        published[i].type = "execution_completed"}) = 1

(***************************************************************************)
(* C15.  At most one execution of the workflow is pending or running at    *)
(* any time, and a request that finds one pending or running is answered   *)
(* with CONFLICT.                                                          *)
(***************************************************************************)
C15_OneNonTerminalExecution ==
    /\ Cardinality(NonTerminal(executions)) <= 1
    /\ \A r \in DOMAIN requests :
          requests[r].saw >= 1 => requests[r].response = Some("409 CONFLICT")

(***************************************************************************)
(* C16.  Every execution persisted as pending is eventually completed or   *)
(* failed.                                                                 *)
(***************************************************************************)
C16_PendingEventuallyTerminal ==
    \A i \in 1..MaxRequests :
        [](i \in NonTerminal(executions)
              => <>(/\ i \in DOMAIN executions
                    /\ executions[i].status \in {"completed", "failed"}))

(***************************************************************************)
(* C21.  Every AgentExecution row the executor has written as running,     *)
(* completed, failed or skipped has its event on the execution's channel   *)
(* (agent_started for a row that was started, agent_completed,             *)
(* agent_failed, agent_skipped), and each agent_completed or agent_failed  *)
(* event comes after an agent_started event of the same agent.             *)
(***************************************************************************)
EventsOf(type, agent_id) ==
    {i \in 1..Len(published) :
        published[i].type = type /\ published[i].agent_id = agent_id}

RowsOf(n) == {agent_exec[n], fb_exec[n]} \ {NoRow}

C21_TransitionsPublished ==
    /\ \A n \in GraphNodes : \A row \in RowsOf(n) :
          /\ row.status \in {"running", "completed", "failed"}
                => EventsOf("agent_started", row.agent_node_id) # {}
          /\ row.status = "completed"
                => EventsOf("agent_completed", row.agent_node_id) # {}
          /\ row.status = "failed"
                => EventsOf("agent_failed", row.agent_node_id) # {}
          /\ row.status = "skipped"
                => EventsOf("agent_skipped", row.agent_node_id) # {}
    /\ \A j \in 1..Len(published) :
          published[j].type \in {"agent_completed", "agent_failed"}
             => \E i \in EventsOf("agent_started", published[j].agent_id) : i < j

(***************************************************************************)
(* C22.  For a connection opened while the execution is not terminal, the  *)
(* messages sent to the client are the messages received on the channel    *)
(* since the subscription, in channel order; the socket is closed exactly  *)
(* when the last message sent is the first execution_completed, and        *)
(* nothing is sent after it.                                               *)
(***************************************************************************)
OpenedNonTerminal == ws.pc # "none" /\ ws.seen \notin {"completed", "failed"}

CompletedSent ==
    {i \in 1..Len(ws.sent) : ws.sent[i].type = "execution_completed"}

Orders(S) ==
    {q \in [1..Cardinality(S) -> S] : \A i, j \in DOMAIN q : q[i] = q[j] => i = j}

Emitted(q, i) == {q[k] : k \in 1..(i - 1)}

\* The nodes not yet emitted whose every dependency is emitted.
Available(q, i) ==
    {n \in GraphNodes \ Emitted(q, i) :
        \A e \in InnerEdges : e.target = n => e.source \in Emitted(q, i)}

SmallestFirst(q) ==
    \A i \in DOMAIN q :
        q[i] \in Available(q, i) /\ \A n \in Available(q, i) : q[i] <= n

SmallestFirstOrders == {q \in Orders(GraphNodes) : SmallestFirst(q)}

HasPlan == plan_result # None /\ plan_result.val.kind = "ExecutionPlan"

C23_PlanDeterministic ==
    HasPlan =>
        /\ SmallestFirstOrders =
              {topological_sort(parse_graph(graph_data), DagKeys(graph_data))}
        /\ \A q \in SmallestFirstOrders :
              plan_result.val.groups =
                 extract_parallel_groups(parse_graph(graph_data), q)

\* Node 3 feeds 2 and 1, listed in that order, and the plan has 1 before 2.
C23_Witness ==
    /\ HasPlan
    /\ graph_data.nodes = <<1, 2, 3>>
    /\ graph_data.edges = <<Edge(3, 2, None), Edge(3, 1, None)>>
    /\ plan_result.val.groups[2].agents = <<1, 2>>

(***************************************************************************)
(* C24.  In a plan the group of a node is 0 when no edge of the graph      *)
(* enters it and otherwise one more than the largest group of a node with  *)
(* an edge into it; the groups are numbered 0..R-1 in order and none is    *)
(* empty; nodes without edges form one group, a chain one group per node;  *)
(* total_agents is the number of nodes, max_parallelism the size of the    *)
(* largest group and estimated_rounds is R.                                *)
(***************************************************************************)
DepsOf(n) == {e.source : e \in {x \in InnerEdges : x.target = n}}

IsChain ==
    /\ Cardinality(InnerEdges) = Cardinality(GraphNodes) - 1
    /\ \A n \in GraphNodes :
          /\ Cardinality(DepsOf(n)) <= 1
          /\ Cardinality(Successors({n})) <= 1

C25_PlanRoundTrip ==
    pc = "rebuilt" =>
        LET p == PlanEntries(plan_result.val, graph_data)
        IN /\ Len(plan.groups) = Len(p.groups)
           /\ \A i \in 1..Len(p.groups) :
                 /\ plan.groups[i].group = p.groups[i].group
                 /\ Len(plan.groups[i].agents) = Len(p.groups[i].agents)
                 /\ \A j \in 1..Len(p.groups[i].agents) :
                       /\ plan.groups[i].agents[j].node_id = p.groups[i].agents[j].node_id
                       /\ plan.groups[i].agents[j].config = p.groups[i].agents[j].config
           /\ plan.total_agents = p.total_agents
           /\ plan.max_parallelism = p.max_parallelism
           /\ plan.estimated_rounds = p.estimated_rounds

\* A rebuilt plan of two groups whose agents differ in their config.
C25_Witness ==
    /\ pc = "rebuilt"
    /\ Len(plan.groups) = 2
    /\ plan.groups[1].agents[1].config # plan.groups[2].agents[1].config

(***************************************************************************)
(* C26.  The execution_order values of one run of execute_workflow are     *)
(* strictly increasing along the plan (group by group, and inside a group  *)
(* in the order of its agents), for the tasks created and for the rows     *)
(* written; every row carries the index of its node's group; a fallback    *)
(* row carries the execution_order and parallel_group of the row of the    *)
(* node it stands in for.                                                  *)
(***************************************************************************)
AgentPos(n) ==
    CHOOSE j \in 1..Len(plan[GroupPos(n)].agents) : plan[GroupPos(n)].agents[j] = n

PlanBefore(n, m) ==
    \/ GroupPos(n) < GroupPos(m)
    \/ GroupPos(n) = GroupPos(m) /\ AgentPos(n) < AgentPos(m)

Enqueued(n) == tasks[n].st # "none"

HasOrder(n) == Enqueued(n) \/ agent_exec[n] # NoRow

OrderOf(n) ==
    IF Enqueued(n) THEN tasks[n].execution_order ELSE agent_exec[n].execution_order

C26_ExecutionOrderIncreasing ==
    /\ \A n \in GraphNodes : \A m \in GraphNodes :
          HasOrder(n) /\ HasOrder(m) /\ PlanBefore(n, m) => OrderOf(n) < OrderOf(m)
    /\ \A n \in GraphNodes :
          agent_exec[n] # NoRow =>
             /\ agent_exec[n].execution_order = OrderOf(n)
             /\ agent_exec[n].parallel_group = plan[GroupPos(n)].group
    /\ \A n \in GraphNodes :
          fb_exec[n] # NoRow =>
             /\ fb_exec[n].fallback_for = Some(n)
             /\ fb_exec[n].execution_order = agent_exec[n].execution_order
             /\ fb_exec[n].parallel_group = agent_exec[n].parallel_group

\* A finished run with a fallback row, and in one group a skipped node
\* followed by a node that ran.
C26_Witness ==
    /\ pc = "done"
    /\ \E k \in GraphNodes : fb_exec[k] # NoRow
    /\ \E n \in GraphNodes : \E m \in GraphNodes :
          /\ GroupPos(n) = GroupPos(m)
          /\ PlanBefore(n, m)
          /\ ~ Enqueued(n) /\ agent_exec[n].status = "skipped"
          /\ Enqueued(m)

(***************************************************************************)
(* C27.  An adapter call that gets no answer is ended after the node's     *)
(* timeout_seconds and counted as a failed attempt, so the gather of a     *)
(* group always returns, whatever the providers do.                        *)
(***************************************************************************)
C27_AttemptTimesOut == (pc = "gather") ~> (pc # "gather")

(***************************************************************************)
(* C28.  When execute is given on_attempt_fail, the callback has been      *)
(* called once for each failed attempt so far, in order, with the number   *)
(* of the attempt (from 1), its error and max_retries + 1 minus that       *)
(* number; it is not called for an attempt that succeeded, and the         *)
(* wrapped function never receives it.                                     *)
(***************************************************************************)
FailedCalls(r) == SelectSeq(r.calls, LAMBDA c : ~ c.ok)

C28_CallbackPerFailedAttempt ==
    (rh # None /\ "on_attempt_fail" \in rh.val.kwargs) =>
        LET r == rh.val
        IN /\ r.callback_calls =
                 [i \in 1..Len(FailedCalls(r)) |->
                     <<i, FailedCalls(r)[i].value, r.max_retries + 1 - i>>]
           /\ \A i \in 1..Len(r.calls) : "on_attempt_fail" \notin r.calls[i].kwargs

(***************************************************************************)
(* C29.  A request answered with EMPTY_WORKFLOW, CIRCULAR_DEPENDENCY,      *)
(* BUDGET_EXCEEDED_ESTIMATE or CONFLICT has persisted no execution and     *)
(* dispatched no job; a request that was not turned down has, when it is   *)
(* answered, persisted one pending execution, dispatched one job for it    *)
(* and is answered with 202.                                               *)
(***************************************************************************)
Rejections ==
    {Some("400 EMPTY_WORKFLOW"), Some("400 CIRCULAR_DEPENDENCY"),
     Some("400 BUDGET_EXCEEDED_ESTIMATE"), Some("409 CONFLICT")}

C29_RejectedPersistsNothing ==
    /\ Len(executions) = Cardinality({r \in DOMAIN requests : requests[r].execution # 0})
    /\ \A r \in DOMAIN requests :
          LET req == requests[r]
          IN /\ req.response \in Rejections => req.execution = 0 /\ req.jobs = 0
             /\ req.response = Some("202") => req.execution # 0 /\ req.jobs = 1
             /\ (req.pc = "done" /\ req.execution # 0) =>
                   req.jobs = 1 /\ req.response = Some("202")

(***************************************************************************)
(* C30.  started_at of the execution record is set exactly when its status *)
(* has been running (no step leads back to pending, so exactly when the    *)
(* status is running, completed or failed), and completed_at is set        *)
(* exactly when the status is completed or failed.                         *)
(***************************************************************************)
C30_Timestamps ==
    /\ exec_record.started_at # None
          <=> exec_record.status \in {"running", "completed", "failed"}
    /\ exec_record.completed_at # None <=> Terminal(exec_record)

(***************************************************************************)
(* C31.  No call of _publish raises to its caller: a call in which redis   *)
(* fails logs a warning and returns, the channel holds the events of the   *)
(* calls redis took, and the stored execution is the same whatever the     *)
(* calls did.                                                              *)
(***************************************************************************)
TakenCalls == SelectSeq(publish_calls, LAMBDA c : c.outcome # "publish raises")

C31_PublishNeverRaises ==
    /\ \A i \in 1..Len(publish_calls) :
          /\ ~ publish_calls[i].raised
          /\ publish_calls[i].outcome # "ok" => publish_calls[i].logged
    /\ published = [i \in 1..Len(TakenCalls) |-> TakenCalls[i].event]
    /\ publish_calls # <<>> /\ ws.pc = "none" =>
          exec_record \in {PendingExecution} \cup
             {[PendingExecution EXCEPT !.status = f, !.started_at = Some(Now),
                                       !.completed_at = Some(Now)] :
                 f \in {"completed", "failed"}}

\* A call that failed to publish, one that failed to close and one that
\* worked.
C31_Witness ==
    /\ \E i \in 1..Len(publish_calls) : publish_calls[i].outcome = "publish raises"
    /\ \E i \in 1..Len(publish_calls) : publish_calls[i].outcome = "close raises"
    /\ \E i \in 1..Len(publish_calls) : publish_calls[i].outcome = "ok"

(***************************************************************************)
(* models/execution.py: ix_agent_executions_lookup is a unique index on    *)
(* (execution_id, agent_node_id).  execute_workflow with a session that    *)
(* keeps the index.                                                        *)
(***************************************************************************)
\* The session holds two rows of the execution with one agent_node_id.
DuplicateKey ==
    \E i \in 1..Len(SessionRows) : \E j \in 1..Len(SessionRows) :
        i # j /\ SessionRows[i].agent_node_id = SessionRows[j].agent_node_id

\* The flush of the second row raises IntegrityError: in the task that
\* added it gather hands the exception back, the transaction is rolled
\* back, the next use of the session raises in execute_workflow, and
\* execute_workflow_task ends by that exception; nothing is committed.
FlushRaises ==
    /\ DuplicateKey
    /\ pc # "raised"
    /\ pc' = "raised"
    /\ UNCHANGED restVars
    /\ UNCHANGED <<graph_data, plan_result, rh, plan, group_idx, exec_record,
                   completed_outputs, skipped_nodes, order_counter,
                   agent_exec, fb_exec, tasks>>

\* execute_workflow goes on while every flush is taken.
NextIndexed ==
    \/ ~ DuplicateKey /\ Prepare
    \/ ~ DuplicateKey /\ StartGroup
    \/ ~ DuplicateKey /\ \E nid \in DOMAIN tasks : TaskStart(nid)
    \/ ~ DuplicateKey /\ \E nid \in DOMAIN tasks : TaskAdapterReturns(nid)
    \/ ~ DuplicateKey /\ \E nid \in DOMAIN tasks : TaskFallbackReturns(nid)
    \/ ~ DuplicateKey /\ GatherReturns
    \/ ~ DuplicateKey /\ Finalize
    \/ FlushRaises

SpecIndexed == Init /\ [][NextIndexed]_vars

\* The event loop runs every step that is ready, and every adapter call
\* returns or raises.
SpecIndexedLive == SpecIndexed /\ WF_vars(NextIndexed)

\* The same fairness for the session without the index.
SpecAnswered == Spec /\ WF_vars(Next)

(***************************************************************************)
(* C32.  Provided each adapter call returns or raises, execute_workflow    *)
(* processes every group in plan order, however many nodes fail, and       *)
(* reaches its finalization with the execution completed or failed.        *)
(***************************************************************************)
C32_Terminates ==
    <>(pc = "done" /\ group_idx = Len(plan) + 1 /\ Terminal(exec_record))

(***************************************************************************)
(* C33.  RetryHandler.execute sleeps 1, 2, 4, 8, 10, 10, ... seconds after *)
(* its failed attempts 0, 1, 2, ... that are followed by another attempt,  *)
(* and does not sleep after its last failed attempt nor after a            *)
(* successful one.                                                         *)
(***************************************************************************)
FailedAttempts(r) == Cardinality({i \in 1..Len(r.calls) : ~ r.calls[i].ok})

\* How many sleeps the loop has taken, by where it stands.
SleepsDue(r) ==
    IF r.returned # None /\ ~ r.returned.val.success /\ r.calls # <<>>
    THEN FailedAttempts(r) - 1
    ELSE FailedAttempts(r)

C33_Backoff ==
    rh # None =>
        /\ Len(rh.val.sleeps) = SleepsDue(rh.val)
        /\ \A i \in 1..Len(rh.val.sleeps) :
              rh.val.sleeps[i] = IF i <= 4 THEN 2 ^ (i - 1) ELSE 10

\* Seven failed attempts with max_retries 6: six sleeps, none after the
\* last attempt.
C33_Witness ==
    /\ rh # None
    /\ rh.val.returned # None
    /\ ~ rh.val.returned.val.success
    /\ rh.val.sleeps = <<1, 2, 4, 8, 10, 10>>
    /\ Len(rh.val.calls) = 7

(***************************************************************************)
(* C34.  No step of execute_workflow removes a node from skipped_nodes;    *)
(* propagate keeps the nodes it is given, applied twice for one failed     *)
(* node it gives the same set as applied once, and what it adds is         *)
(* reachable from the failed node and is not the failed node.              *)
(***************************************************************************)
PropagateLaws ==
    LET edges_from == EdgesFrom(graph_data.edges, <<>>)
    IN \A f \in GraphNodes : \A S \in SUBSET GraphNodes :
          LET once == propagate(f, edges_from, S)
          IN /\ S \subseteq once
             /\ propagate(f, edges_from, once) = once
             /\ f \notin once \ S
             /\ once \ S \subseteq Reachable(f)

C34_SkippedMonotone ==
    /\ [][skipped_nodes \subseteq skipped_nodes']_vars
    /\ [](PropagateLaws /\ skipped_nodes \subseteq GraphNodes)

\* A failed node with two nodes downstream, both skipped at the end.
C34_Witness ==
    /\ pc = "done"
    /\ \E f \in GraphNodes :
          /\ FinallyFailed(f)
          /\ Cardinality(Reachable(f)) = 2
          /\ skipped_nodes = Reachable(f)

(***************************************************************************)
(* C35.  When execute_workflow has set the execution to completed or       *)
(* failed, every row of the execution is completed, failed or skipped;     *)
(* none is running, also when a task raised outside the retry handler.     *)
(***************************************************************************)
C35_NoRowLeftRunning ==
    Terminal(exec_record) =>
        \A i \in 1..Len(AllRows) :
            AllRows[i].status \in {"completed", "failed", "skipped"}

(***************************************************************************)
(* C36.  skipped_nodes and completed_outputs are disjoint in every state   *)
(* of execute_workflow: a node in skipped_nodes has no task (no adapter    *)
(* call, no fallback, no completed result), a node with a completed output *)
(* is never added to skipped_nodes, and the nodes downstream of a node are *)
(* in later groups than the node.                                          *)
(***************************************************************************)
SkippedNeverRun ==
    /\ skipped_nodes \cap DOMAIN completed_outputs = {}
    /\ \A n \in skipped_nodes :
          /\ tasks[n].st = "none"
          /\ fb_exec[n] = NoRow
          /\ agent_exec[n].status \in {"absent", "skipped"}
    /\ \A n \in GraphNodes : \A m \in Reachable(n) : GroupPos(n) < GroupPos(m)

C36_SkippedCompletedDisjoint ==
    /\ []SkippedNeverRun
    /\ [][(skipped_nodes' \ skipped_nodes) \cap DOMAIN completed_outputs = {}]_vars

\* A finished execution with a completed output, a failed node and a node
\* skipped downstream of it.
C36_Witness ==
    /\ pc = "done"
    /\ DOMAIN completed_outputs # {}
    /\ \E f \in GraphNodes :
          /\ FinallyFailed(f)
          /\ \E m \in skipped_nodes :
                m \in Reachable(f) /\ SkippedFor(m, SkipDependencyFailed)

(***************************************************************************)
(* C37.  A node of the first group of the plan has no inbound edge, is     *)
(* never in skipped_nodes and gets no skipped row; once its group is       *)
(* reached it has a task.  So a finished execution has at least one node   *)
(* whose task was started, and its rows are never all skipped.             *)
(***************************************************************************)
FirstGroup == Range(plan[1].agents)

C37_FirstGroupRuns ==
    /\ Len(plan) >= 1 /\ FirstGroup # {}
    /\ \A n \in FirstGroup :
          /\ \A e \in InnerEdges : e.target # n
          /\ n \notin skipped_nodes
          /\ agent_exec[n].status # "skipped"
          /\ Reached(n) => tasks[n].st # "none"
          /\ pc \in {"finalize", "done"} => tasks[n].st = "done" /\ agent_exec[n] # NoRow
    /\ pc = "done" => \E n \in GraphNodes : agent_exec[n].status \notin {"absent", "skipped"}

\* A finished execution in which every node outside the first group was
\* skipped.
C37_Witness ==
    /\ pc = "done"
    /\ FirstGroup # GraphNodes
    /\ \A n \in GraphNodes \ FirstGroup : agent_exec[n].status = "skipped"
    /\ \A n \in FirstGroup : tasks[n].st = "done"

(***************************************************************************)
(* create_execution_plan on graphs whose nodes are listed in any order     *)
(***************************************************************************)
\* The listings of a sequence: the same elements in each order.
Listings(seq) ==
    {[i \in 1..Len(seq) |-> seq[p[i]]] : p \in Permutations(1..Len(seq))}

\* The graphs handed to the planner, each with its nodes listed in each
\* order (its edges are already listed in each order).
ListedGraphs(maxn, maxe) ==
    UNION {{[g EXCEPT !.nodes = l] : l \in Listings(g.nodes)} :
              g \in PlannerGraphs(maxn, maxe)}

InitListed ==
    /\ graph_data \in ListedGraphs(MaxPlanNodes, MaxPlanEdges)
    /\ plan_result = None
    /\ rh = None
    /\ ExecOff
    /\ RestOff

SpecListed == InitListed /\ [][NextPlanner]_vars

(***************************************************************************)
(* C38.  The plan create_execution_plan returns for a graph is the plan it *)
(* returns for the same nodes and edges listed in any other order: the     *)
(* same groups with the same agents in the same order.                     *)
(***************************************************************************)
C38_PlanIgnoresListing ==
    HasPlan =>
        \A nodes \in Listings(graph_data.nodes) :
            \A edges \in Listings(graph_data.edges) :
                create_execution_plan([graph_data EXCEPT !.nodes = nodes,
                                                         !.edges = edges])
                    = plan_result.val

\* The plan of a graph whose nodes are listed in descending order and in
\* which two nodes become ready at the pop of a third.
C38_Witness ==
    /\ HasPlan
    /\ graph_data.nodes = <<3, 2, 1>>
    /\ graph_data.edges = <<Edge(3, 2, None), Edge(3, 1, None)>>
    /\ plan_result.val.groups =
          <<[group |-> 0, agents |-> <<3>>], [group |-> 1, agents |-> <<1, 2>>]>>

(***************************************************************************)
(* The bridge with its own steps scheduled: an accepted connection         *)
(* subscribes, and a message that has arrived is forwarded.  What is       *)
(* published, and when, is the publishers' matter.                         *)
(***************************************************************************)
BridgeSteps == WsSubscribe \/ WsForward

SpecBridgeLive == SpecBridge /\ WF_vars(BridgeSteps)

(***************************************************************************)
(* C39.  A connection of the bridge to an execution that is completed or   *)
(* failed is eventually closed by the bridge, also when the execution      *)
(* became terminal between the bridge's read of the status and its         *)
(* subscription.                                                           *)
(***************************************************************************)
C39_ConnectionEventuallyClosed ==
    (ws.pc # "none" /\ Terminal(exec_record)) ~> (ws.pc = "closed")

(***************************************************************************)
(* C40.  For each planned node the adapter is called at most               *)
(* max_retries + 1 times for the node itself; its fallback is attempted    *)
(* once, after these calls have all failed: the task returns with the      *)
(* first outcome of the fallback's call, whatever the fallback's own       *)
(* configuration says, and the execution has at most one fallback row for  *)
(* the node.                                                               *)
(***************************************************************************)
PrimaryCalls(n) ==
    IF tasks[n].st = "none" \/ tasks[n].rh = None THEN <<>>
    ELSE tasks[n].rh.val.calls

FallbackRowsFor(n) ==
    {i \in 1..Len(AllRows) :
        AllRows[i].is_fallback /\ AllRows[i].fallback_for = Some(n)}

AttemptsBounded ==
    \A n \in GraphNodes :
        /\ Len(PrimaryCalls(n)) <= NodeConfig(graph_data, n).max_retries + 1
        /\ Cardinality(FallbackRowsFor(n)) <= 1
        /\ fb_exec[n] # NoRow =>
              /\ Len(PrimaryCalls(n)) = NodeConfig(graph_data, n).max_retries + 1
              /\ \A i \in 1..Len(PrimaryCalls(n)) : ~ PrimaryCalls(n)[i].ok
              /\ fb_exec[n].agent_node_id =
                    NodeConfig(graph_data, n).fallback_agent_id.val
              /\ fb_exec[n].retries = 0
              /\ tasks[n].st \in {"fallback", "done"}
        /\ tasks[n].st = "fallback" <=> fb_exec[n].status = "running"

\* The step of a task that awaits its fallback's call is its return.
FallbackOnce ==
    \A n \in GraphNodes :
        (tasks[n].st = "fallback" /\ tasks'[n] # tasks[n]) =>
            /\ tasks'[n].st = "done"
            /\ tasks'[n].rh = tasks[n].rh
            /\ fb_exec'[n].status \in {"completed", "failed"}
            /\ agent_exec' = agent_exec

C40_AttemptsBounded ==
    /\ []AttemptsBounded
    /\ [][FallbackOnce]_vars

\* A finished execution with a node of max_retries 1 that failed twice
\* and whose fallback failed at its only call.
C40_Witness ==
    /\ pc = "done"
    /\ \E n \in GraphNodes :
          /\ FinallyFailed(n)
          /\ NodeConfig(graph_data, n).max_retries = 1
          /\ Len(PrimaryCalls(n)) = 2
          /\ fb_exec[n].status = "failed"

==========================================================================
